---- MODULE Spec2Model ----
(***************************************************************************)
(* Smart-Board backend: the card analysis / recommendation engine of       *)
(* src/utils/recommendations.js.                                           *)
(*                                                                         *)
(* The functions of the engine are synchronous.  A call is one step: it    *)
(* reads the wall clock (new Date()), takes its arguments and leaves its   *)
(* return value.  The state holds the function to call and its arguments   *)
(* (op, args), the position of the call (pc: "call" before it, "done"      *)
(* after it), the value returned (ret) and the wall clock, which runs      *)
(* until the call is made.                                                 *)
(*                                                                         *)
(* The AI adapter (utils/geminiAI.js) and the request handlers of the      *)
(* controllers come after the engine.  Their state is the document store   *)
(* (store: the boards, lists and cards), the requests made to the          *)
(* generative-text service (service) and the local variables of the        *)
(* handlers that wait at an await (local).                                 *)
(*                                                                         *)
(* JavaScript values are modelled as follows.                              *)
(*   string      a TLA+ string, taken apart character by character         *)
(*   undefined   the record Undefined; a text argument is a record         *)
(*               Str(s) or Undefined                                       *)
(*   null        the record Null                                           *)
(*   Date        a record [type, nan, day, ms]: day counts the local       *)
(*               calendar days since 1970-01-01, ms the milliseconds       *)
(*               within the day; nan marks an Invalid Date.  The local     *)
(*               time zone has a fixed offset.                             *)
(*   Set         a sequence without duplicates, in insertion order         *)
(*   number      an integer, or for a quotient a record [num, den]         *)
(***************************************************************************)
EXTENDS Integers, Sequences, FiniteSets, TLC

VARIABLES clock, pc, op, args, ret, store, service, local

vars == <<clock, pc, op, args, ret, store, service, local>>

(***************************************************************************)
(* Bounds of the model.                                                    *)
(***************************************************************************)
MaxPhrases == 2

MaxClockDays == 7

-----------------------------------------------------------------------------
(***************************************************************************)
(* JavaScript values.                                                      *)
(***************************************************************************)
Undefined == [type |-> "undefined"]

Null == [type |-> "null"]

Str(s) == [type |-> "string", val |-> s]

\* !v for a text argument: undefined and the empty string are falsy.
IsFalsy(v) == v.type \in {"undefined", "null"} \/ (v.type = "string" /\ v.val = "")

\* `${v}`: the template literal's conversion of a text value.
TemplateString(v) ==
  IF v.type = "undefined" THEN "undefined"
  ELSE IF v.type = "null" THEN "null"
  ELSE v.val

(***************************************************************************)
(* Strings.                                                                *)
(***************************************************************************)
\* s.substring(m - 1, n): the characters m..n of s (counted from 1), cut to
\* the string's length.
SubString(s, m, n) ==
  IF m > n \/ m > Len(s) THEN ""
  ELSE SubSeq(s, m, IF n > Len(s) THEN Len(s) ELSE n)

CharAt(s, i) == SubString(s, i, i)

UpperLetters == "ABCDEFGHIJKLMNOPQRSTUVWXYZ"

LowerLetters == "abcdefghijklmnopqrstuvwxyz"

Digits == "0123456789"

\* The position of character c in the string alphabet, 0 when it is absent.
IndexIn(alphabet, c) ==
  IF \E i \in 1..Len(alphabet) : CharAt(alphabet, i) = c
  THEN CHOOSE i \in 1..Len(alphabet) : CharAt(alphabet, i) = c
  ELSE 0

\* The lowercase letter of every uppercase letter.
UpperToLower ==
  [c \in {CharAt(UpperLetters, i) : i \in 1..Len(UpperLetters)} |->
     CharAt(LowerLetters, IndexIn(UpperLetters, c))]

LowerChar(c) == IF c \in DOMAIN UpperToLower THEN UpperToLower[c] ELSE c

RECURSIVE toLowerCase(_)
toLowerCase(s) ==
  IF s = "" THEN ""
  ELSE LowerChar(CharAt(s, 1)) \o toLowerCase(SubString(s, 2, Len(s)))

\* String.prototype.includes
includes(s, sub) ==
  \E i \in 0..(Len(s) - Len(sub)) : SubString(s, i + 1, i + Len(sub)) = sub

DigitChars == {CharAt(Digits, i) : i \in 1..Len(Digits)}

IsDigit(c) == c \in DigitChars

\* The length of the run of digits of s that starts at position i.
RECURSIVE DigitRun(_, _)
DigitRun(s, i) ==
  IF i <= Len(s) /\ IsDigit(CharAt(s, i)) THEN 1 + DigitRun(s, i + 1) ELSE 0

\* parseInt of a string of decimal digits.
RECURSIVE parseInt(_)
parseInt(d) ==
  IF d = "" THEN 0
  ELSE 10 * parseInt(SubString(d, 1, Len(d) - 1)) + (IndexIn(Digits, CharAt(d, Len(d))) - 1)

\* Whether /in (\d+) <unit>s?/ matches s at position i: "in ", a run of
\* digits (greedy; no shorter run can be followed by the blank), " <unit>".
RegexMatchesAt(s, unit, i) ==
  /\ SubString(s, i, i + 2) = "in "
  /\ LET n == DigitRun(s, i + 3)
     IN  /\ n > 0
         /\ SubString(s, i + 3 + n, i + 3 + n + Len(unit)) = " " \o unit

\* s.match(/in (\d+) <unit>s?/): the capture group of the leftmost match,
\* or Null.
RegexMatch(s, unit) ==
  LET at == {i \in 1..Len(s) : RegexMatchesAt(s, unit, i)}
  IN  IF at = {} THEN Null
      ELSE LET i == CHOOSE j \in at : \A k \in at : j <= k
           IN  Str(SubString(s, i + 3, i + 2 + DigitRun(s, i + 3)))

(***************************************************************************)
(* Dates.                                                                  *)
(***************************************************************************)
IsLeap(y) == (y % 4 = 0 /\ y % 100 # 0) \/ y % 400 = 0

\* Months are numbered from 0, as Date.prototype.getMonth does.
DaysInMonth(y, m) ==
  IF m = 1 THEN (IF IsLeap(y) THEN 29 ELSE 28)
  ELSE IF m \in {3, 5, 8, 10} THEN 30 ELSE 31

\* The day number of 1 January of year y (ECMAScript's DayFromYear).
DayFromYear(y) ==
  365 * (y - 1970) + ((y - 1969) \div 4) - ((y - 1901) \div 100) + ((y - 1601) \div 400)

RECURSIVE DayFromMonth(_, _)
DayFromMonth(y, m) ==
  IF m = 0 THEN DayFromYear(y) ELSE DayFromMonth(y, m - 1) + DaysInMonth(y, m - 1)

\* MakeDay(year, month, date): month and date may lie outside their range
\* and carry into the next months and years.
MakeDay(y, m, dt) == DayFromMonth(y + (m \div 12), m % 12) + dt - 1

RECURSIVE YearFromDayFrom(_, _)
YearFromDayFrom(day, y) ==
  IF day < DayFromYear(y + 1) THEN y ELSE YearFromDayFrom(day, y + 1)

YearFromDay(day) == YearFromDayFrom(day, 1970 + (day \div 366))

RECURSIVE MonthFromDayFrom(_, _, _)
MonthFromDayFrom(day, y, m) ==
  IF m = 11 \/ day < DayFromMonth(y, m + 1) THEN m ELSE MonthFromDayFrom(day, y, m + 1)

MonthFromDay(day) == MonthFromDayFrom(day, YearFromDay(day), 0)

DateFromDay(day) == day - DayFromMonth(YearFromDay(day), MonthFromDay(day)) + 1

MsPerDay == 24 * 60 * 60 * 1000

InvalidDate == [type |-> "date", nan |-> TRUE]

\* TimeClip: a time value beyond 8.64e15 ms (100,000,000 days) from the epoch
\* is NaN, and the Date holding it is an Invalid Date.
MakeDate(day, ms) ==
  IF day > 100000000 \/ (day = 100000000 /\ ms > 0) \/ day < 0
  THEN InvalidDate
  ELSE [type |-> "date", nan |-> FALSE, day |-> day, ms |-> ms]

\* Date.prototype.getDate, getMonth, getDay (0 is Sunday; 1970-01-01 was a
\* Thursday).
getDate(d) == DateFromDay(d.day)

getMonth(d) == MonthFromDay(d.day)

getFullYear(d) == YearFromDay(d.day)

getDay(d) == (d.day + 4) % 7

\* Date.prototype.setDate, setMonth, setHours: the Date after the call.
setDate(d, dt) ==
  IF d.nan THEN d ELSE MakeDate(MakeDay(getFullYear(d), getMonth(d), dt), d.ms)

setMonth(d, m) ==
  IF d.nan THEN d ELSE MakeDate(MakeDay(getFullYear(d), m, getDate(d)), d.ms)

setHours(d, h, mi, s, ms) ==
  IF d.nan THEN d ELSE MakeDate(d.day, ((h * 60 + mi) * 60 + s) * 1000 + ms)

\* Date.prototype.getTime, counted in days and milliseconds; NaN for an
\* Invalid Date, and NaN differs from every number, itself included.
TimeDiffers(d1, d2) == d1.nan \/ d2.nan \/ d1.day # d2.day \/ d1.ms # d2.ms

-----------------------------------------------------------------------------
(***************************************************************************)
(* parseDateKeywords(text), with now the value new Date() returns.         *)
(***************************************************************************)
\* The branches of parseDateKeywords, named after the Date each one builds.
today(now) == setHours(now, 23, 59, 59, 999)

tomorrow(now) == setHours(setDate(now, getDate(now) + 1), 23, 59, 59, 999)

nextWeek(now) == setHours(setDate(now, getDate(now) + 7), 23, 59, 59, 999)

endOfWeekNoRoll(now) ==
  LET daysUntilFriday == (5 - getDay(now) + 7) % 7
  IN  setHours(setDate(now, getDate(now) + daysUntilFriday), 23, 59, 59, 999)

endOfWeek(now) ==
  LET daysUntilFriday == (5 - getDay(now) + 7) % 7
  IN  setHours(setDate(now, getDate(now)
                              + (IF daysUntilFriday = 0 THEN 7 ELSE daysUntilFriday)),
               23, 59, 59, 999)

nextMonth(now) == setHours(setMonth(now, getMonth(now) + 1), 23, 59, 59, 999)

\* The "in X days" and "in X weeks" branches, for the captured digits.
futureDays(now, captured) ==
  LET days == parseInt(captured)
  IN  setHours(setDate(now, getDate(now) + days), 23, 59, 59, 999)

futureWeeks(now, captured) ==
  LET weeks == parseInt(captured)
  IN  setHours(setDate(now, getDate(now) + (weeks * 7)), 23, 59, 59, 999)

parseDateKeywordsNextWeekFirst(text, now) ==
  IF IsFalsy(text) THEN Null
  ELSE
    LET lowerText    == toLowerCase(text.val)
        inDaysMatch  == RegexMatch(lowerText, "day")
        inWeeksMatch == RegexMatch(lowerText, "week")
    IN
    IF includes(lowerText, "next week") THEN nextWeek(now)
    ELSE IF includes(lowerText, "today") THEN today(now)
    ELSE IF includes(lowerText, "tomorrow") THEN tomorrow(now)
    ELSE IF \/ includes(lowerText, "this week")
            \/ includes(lowerText, "end of week")
            \/ includes(lowerText, "eow") THEN endOfWeek(now)
    ELSE IF includes(lowerText, "next month") THEN nextMonth(now)
    ELSE IF inDaysMatch # Null THEN futureDays(now, inDaysMatch.val)
    ELSE IF inWeeksMatch # Null THEN futureWeeks(now, inWeeksMatch.val)
    ELSE Null

parseDateKeywords(text, now) ==
  IF IsFalsy(text) THEN Null
  ELSE
    LET lowerText    == toLowerCase(text.val)
        inDaysMatch  == RegexMatch(lowerText, "day")
        inWeeksMatch == RegexMatch(lowerText, "week")
    IN
    IF includes(lowerText, "today") THEN today(now)
    ELSE IF includes(lowerText, "tomorrow") THEN tomorrow(now)
    ELSE IF includes(lowerText, "next week") THEN nextWeek(now)
    ELSE IF \/ includes(lowerText, "this week")
            \/ includes(lowerText, "end of week")
            \/ includes(lowerText, "eow") THEN endOfWeek(now)
    ELSE IF includes(lowerText, "next month") THEN nextMonth(now)
    ELSE IF inDaysMatch # Null THEN futureDays(now, inDaysMatch.val)
    ELSE IF inWeeksMatch # Null THEN futureWeeks(now, inWeeksMatch.val)
    ELSE Null

-----------------------------------------------------------------------------
(***************************************************************************)
(* The wall clock.  It starts on Friday 2024-01-26 and runs for            *)
(* MaxClockDays days, over a week and over the end of a month; within a    *)
(* day it is read at the first and at the last millisecond.                *)
(***************************************************************************)
StartDay == MakeDay(2024, 0, 26)

ClockInit == clock = MakeDate(StartDay, 0)

Tick ==
  /\ pc = "call"
  /\ \/ /\ clock.ms = 0
        /\ clock' = MakeDate(clock.day, MsPerDay - 1)
     \/ /\ clock.ms # 0
        /\ clock.day < StartDay + MaxClockDays
        /\ clock' = MakeDate(clock.day + 1, 0)
  /\ UNCHANGED <<pc, op, args, ret, store, service, local>>

(***************************************************************************)
(* The texts the calls are made with: up to MaxPhrases phrases joined by   *)
(* blanks, the empty text and undefined.                                   *)
(***************************************************************************)
RECURSIVE Join(_)
Join(ps) ==
  IF ps = <<>> THEN ""
  ELSE IF Len(ps) = 1 THEN ps[1]
  ELSE ps[1] \o " " \o Join(Tail(ps))

PhraseSeqs(P) == UNION {[1..n -> P] : n \in 0..MaxPhrases}

DatePhrases ==
  {"Today", "finish this tomorrow", "next week", "this week", "End of week", "eow",
   "next month", "ship it in 3 days", "in 1 day", "in 12 weeks",
   "in 100000000 days", "in  4 days", "no date"}

DateTexts == {Str(Join(ps)) : ps \in PhraseSeqs(DatePhrases)} \cup {Undefined}

\* A call of function f with one of the arguments of A is to be made.
\* The document store without a document, and the generative-text service
\* without a request made to it.
NoStore == [boards |-> <<>>, lists |-> <<>>, cards |-> <<>>]

NoService == <<>>

\* No request handler under way.
NoLocal == <<>>

ToCall(f, A) ==
  /\ pc = "call" /\ op = f /\ args \in A /\ ret = Null
  /\ store = NoStore /\ service = NoService /\ local = NoLocal

ParseDateKeywords ==
  /\ pc = "call" /\ op = "parseDateKeywords"
  /\ pc' = "done"
  /\ args' = [text |-> args.text, now |-> clock]
  /\ ret' = parseDateKeywords(args.text, clock)
  /\ UNCHANGED <<clock, op, store, service, local>>

InitDate == ClockInit /\ ToCall("parseDateKeywords", [text : DateTexts])

NextDate == Tick \/ ParseDateKeywords

SpecDate == InitDate /\ [][NextDate]_vars

(***************************************************************************)
(* The date rules as the specification states them: rule r of the fixed    *)
(* order matches the lowercased text, and the date it stands for.          *)
(***************************************************************************)
DateRuleMatches(r, lower) ==
  CASE r = 1 -> includes(lower, "today")
    [] r = 2 -> includes(lower, "tomorrow")
    [] r = 3 -> includes(lower, "next week")
    [] r = 4 -> \/ includes(lower, "this week")
                \/ includes(lower, "end of week")
                \/ includes(lower, "eow")
    [] r = 5 -> includes(lower, "next month")
    [] r = 6 -> \E i \in 1..Len(lower) : RegexMatchesAt(lower, "day", i)
    [] r = 7 -> \E i \in 1..Len(lower) : RegexMatchesAt(lower, "week", i)

\* The first rule of the order that matches, 0 when none does.
FirstDateRule(lower) ==
  IF \E r \in 1..7 : DateRuleMatches(r, lower)
  THEN CHOOSE r \in 1..7 :
         /\ DateRuleMatches(r, lower)
         /\ \A q \in 1..(r - 1) : ~DateRuleMatches(q, lower)
  ELSE 0

\* The last millisecond, 23:59:59.999, of the day k days after now.
EndOfDayAfter(now, k) ==
  [type |-> "date", nan |-> FALSE, day |-> now.day + k, ms |-> MsPerDay - 1]

\* The integer written in the leftmost "in N <unit>" of the text.
WrittenN(lower, unit) == parseInt(RegexMatch(lower, unit).val)

DateOfRule(r, lower, now) ==
  CASE r = 0 -> Null
    [] r = 1 -> EndOfDayAfter(now, 0)
    [] r = 2 -> EndOfDayAfter(now, 1)
    [] r = 3 -> EndOfDayAfter(now, 7)
    [] r = 4 -> EndOfDayAfter(now, CHOOSE k \in 1..7 : (now.day + k + 4) % 7 = 5)
    [] r = 5 -> MakeDate(MakeDay(getFullYear(now), getMonth(now) + 1, getDate(now)),
                         MsPerDay - 1)
    [] r = 6 -> MakeDate(now.day + WrittenN(lower, "day"), MsPerDay - 1)
    [] r = 7 -> MakeDate(now.day + 7 * WrittenN(lower, "week"), MsPerDay - 1)

CalledParse == pc = "done" /\ op = "parseDateKeywords"

\* The lowercased text of the call and the first rule that matches it.
ArgLower == toLowerCase(TemplateString(args.text))

ArgRule == IF IsFalsy(args.text) THEN 0 ELSE FirstDateRule(ArgLower)

\* C2: parseDateKeywords applies only the first matching rule of the order
\* today, tomorrow, next week, this week / end of week / eow, next month,
\* in N days, in N weeks: the date returned is the date of the earliest rule
\* that matches the text, and a text that matches no rule yields null.
C2_FirstMatchingRuleWins ==
  CalledParse =>
    LET lower == ArgLower
    IN  ret = DateOfRule(IF IsFalsy(args.text) THEN 0 ELSE FirstDateRule(lower),
                         lower, args.now)

\* A text with both "today" and "next week" has given today's end of day.
C2_Witness ==
  /\ CalledParse
  /\ ~IsFalsy(args.text)
  /\ DateRuleMatches(1, ArgLower)
  /\ DateRuleMatches(3, ArgLower)
  /\ ret = EndOfDayAfter(args.now, 0)

\* C3: for a text that the "this week" / "end of week" / "eow" rule decides,
\* the date returned is a Friday 1 to 7 days after the current day; when the
\* current day is a Friday it is the Friday 7 days later.
C3_EndOfWeekIsComingFriday ==
  (CalledParse /\ ArgRule = 4) =>
    /\ ret.type = "date"
    /\ ~ret.nan
    /\ getDay(ret) = 5
    /\ (ret.day - args.now.day) \in 1..7
    /\ (getDay(args.now) = 5 => ret.day = args.now.day + 7)

\* The rule was applied on a Friday and has given the Friday a week later.
C3_Witness ==
  /\ CalledParse
  /\ ArgRule = 4
  /\ getDay(args.now) = 5
  /\ ret.type = "date"
  /\ ~ret.nan
  /\ ret.day = args.now.day + 7

\* C4: when no earlier rule matches, "in N days" returns the current date
\* plus N days and "in N weeks" the current date plus 7*N days, for every
\* integer N written in the text; "tomorrow" returns the current date plus
\* one day; every result that is not null has the local time 23:59:59.999.
C4_InNDaysAndEndOfDay ==
  CalledParse =>
    LET lower == ArgLower
        rule  == ArgRule
    IN  /\ rule = 6 => ret = EndOfDayAfter(args.now, WrittenN(lower, "day"))
        /\ rule = 7 => ret = EndOfDayAfter(args.now, 7 * WrittenN(lower, "week"))
        /\ rule = 2 => ret = EndOfDayAfter(args.now, 1)
        /\ ret # Null => (ret.type = "date" /\ ~ret.nan /\ ret.ms = MsPerDay - 1)

\* What the code does keep of C4: the statement for the dates a Date can
\* hold, up to 100,000,000 days after 1970-01-01.
C4_WithinDateRange ==
  CalledParse =>
    LET lower == ArgLower
        rule  == ArgRule
    IN  /\ rule = 6 => ret = MakeDate(args.now.day + WrittenN(lower, "day"), MsPerDay - 1)
        /\ rule = 7 => ret = MakeDate(args.now.day + 7 * WrittenN(lower, "week"), MsPerDay - 1)
        /\ rule = 2 => ret = EndOfDayAfter(args.now, 1)
        /\ (ret # Null /\ ~ret.nan) => ret.ms = MsPerDay - 1

-----------------------------------------------------------------------------
(***************************************************************************)
(* extractWords(text) and jaccardSimilarity(set1, set2).                   *)
(***************************************************************************)
Range(f) == {f[i] : i \in DOMAIN f}

\* \w of a regular expression: ASCII letters, digits and the underscore.
WordChars ==
  {CharAt(UpperLetters, i) : i \in 1..Len(UpperLetters)}
    \cup {CharAt(LowerLetters, i) : i \in 1..Len(LowerLetters)}
    \cup DigitChars \cup {"_"}

\* \s of a regular expression, for the white space the texts hold.
SpaceChars == {" ", "\t", "\n"}

\* s.replace(/[^\w\s]/g, ' ')
RECURSIVE replaceNonWord(_)
replaceNonWord(s) ==
  IF s = "" THEN ""
  ELSE LET c == CharAt(s, 1)
       IN  (IF c \in WordChars \/ c \in SpaceChars THEN c ELSE " ")
             \o replaceNonWord(SubString(s, 2, Len(s)))

\* The length of the run of white space of s that starts at position i.
RECURSIVE SpaceRun(_, _)
SpaceRun(s, i) ==
  IF i <= Len(s) /\ CharAt(s, i) \in SpaceChars THEN 1 + SpaceRun(s, i + 1) ELSE 0

\* s.split(/\s+/): the pieces between the runs of white space; a run at the
\* start or at the end leaves an empty piece there.
RECURSIVE split(_)
split(s) ==
  LET at == {i \in 1..Len(s) : CharAt(s, i) \in SpaceChars}
  IN  IF at = {} THEN <<s>>
      ELSE LET i == CHOOSE j \in at : \A k \in at : j <= k
           IN  <<SubString(s, 1, i - 1)>>
                 \o split(SubString(s, i + SpaceRun(s, i), Len(s)))

\* Array.prototype.filter
filter(arr, Keep(_)) == SelectSeq(arr, Keep)

\* new Set(array): the elements in the order of their first occurrence.
RECURSIVE NewSet(_)
NewSet(arr) ==
  IF arr = <<>> THEN <<>>
  ELSE LET init == NewSet(SubSeq(arr, 1, Len(arr) - 1))
           last == arr[Len(arr)]
       IN  IF last \in Range(init) THEN init ELSE Append(init, last)

\* Set.prototype.has and size
has(set, x) == x \in Range(set)

size(set) == Len(set)

stopWords ==
  NewSet(<<"a", "an", "and", "are", "as", "at", "be", "by", "for", "from",
           "has", "he", "in", "is", "it", "its", "of", "on", "that", "the",
           "to", "was", "will", "with", "this", "but", "they", "have", "had",
           "what", "when", "where", "who", "which", "why", "how">>)

extractWordsNoLowerCase(text) ==
  IF IsFalsy(text) THEN NewSet(<<>>)
  ELSE
    LET Meaningful(word) == Len(word) > 2 /\ ~has(stopWords, word)
        words == filter(split(replaceNonWord(text.val)), Meaningful)
    IN  NewSet(words)

extractWords(text) ==
  IF IsFalsy(text) THEN NewSet(<<>>)
  ELSE
    LET Meaningful(word) == Len(word) > 2 /\ ~has(stopWords, word)
        words == filter(split(replaceNonWord(toLowerCase(text.val))), Meaningful)
    IN  NewSet(words)

\* A quotient of two sizes, kept as the pair of its operands.  Sizes are
\* small integers, so that two quotients are the same double exactly when
\* they are the same fraction.
Quotient(n, d) == [num |-> n, den |-> d]

Zero == Quotient(0, 1)

jaccardSimilarityNoSet(set1, set2) ==
  LET InSet2(x) == has(set2, x)
      intersection == NewSet(filter(set1, InSet2))
      union == set1 \o set2
  IN  IF size(union) = 0 THEN Zero ELSE Quotient(size(intersection), size(union))

jaccardSimilarity(set1, set2) ==
  LET InSet2(x) == has(set2, x)
      intersection == NewSet(filter(set1, InSet2))
      union == NewSet(set1 \o set2)
  IN  IF size(union) = 0 THEN Zero ELSE Quotient(size(intersection), size(union))

\* a === b, a >= b and a > b on quotients.
NumEq(a, b) == a.num * b.den = b.num * a.den

NumGeq(a, b) == a.num * b.den >= b.num * a.den

NumGt(a, b) == a.num * b.den > b.num * a.den

(***************************************************************************)
(* The texts and the word sets of the calls.                               *)
(***************************************************************************)
WordPhrases ==
  {"The", "Fix login-bug!", "is it", "API_v2 docs", "the\tQA", "go",
   "Login", " ", "what's up?", "FIX"}

WordTexts == {Str(Join(ps)) : ps \in PhraseSeqs(WordPhrases)} \cup {Undefined}

SetWords == {"fix", "login", "bug"}

\* Every Set over the words W: the sequences without duplicates.
SetsOver(W) ==
  {s \in UNION {[1..n -> W] : n \in 0..Cardinality(W)} :
     \A i, j \in DOMAIN s : i # j => s[i] # s[j]}

ExtractWords ==
  /\ pc = "call" /\ op = "extractWords"
  /\ pc' = "done"
  /\ ret' = extractWords(args.text)
  /\ UNCHANGED <<clock, op, args, store, service, local>>

JaccardSimilarity ==
  /\ pc = "call" /\ op = "jaccardSimilarity"
  /\ pc' = "done"
  /\ ret' = jaccardSimilarity(args.set1, args.set2)
  /\ UNCHANGED <<clock, op, args, store, service, local>>

InitWords ==
  /\ ClockInit
  /\ \/ ToCall("extractWords", [text : WordTexts])
     \/ ToCall("jaccardSimilarity",
               [set1 : SetsOver(SetWords), set2 : SetsOver(SetWords)])

NextWords == ExtractWords \/ JaccardSimilarity

SpecWords == InitWords /\ [][NextWords]_vars

\* C7: jaccardSimilarity(A, B) is |A n B| / |A u B| and lies in [0, 1]; it
\* is symmetric; it is 1 for two equal non-empty sets and 0 for two empty
\* sets.
C7_JaccardSimilarity ==
  (pc = "done" /\ op = "jaccardSimilarity") =>
    LET A == Range(args.set1)
        B == Range(args.set2)
    IN  /\ ret.den > 0
        /\ A \cup B # {} =>
             NumEq(ret, Quotient(Cardinality(A \cap B), Cardinality(A \cup B)))
        /\ NumGeq(ret, Zero) /\ NumGeq(Quotient(1, 1), ret)
        /\ NumEq(ret, jaccardSimilarity(args.set2, args.set1))
        /\ (A = B /\ A # {}) => NumEq(ret, Quotient(1, 1))
        /\ (A = {} /\ B = {}) => NumEq(ret, Zero)

\* Two different sets that share a word have a similarity strictly between
\* 0 and 1.
C7_Witness ==
  /\ pc = "done" /\ op = "jaccardSimilarity"
  /\ Range(args.set1) # Range(args.set2)
  /\ Range(args.set1) \cap Range(args.set2) # {}
  /\ NumGt(ret, Zero)
  /\ NumGt(Quotient(1, 1), ret)

UpperChars == {CharAt(UpperLetters, i) : i \in 1..Len(UpperLetters)}

\* C8: the word set of extractWords holds no token of length <= 2 and no
\* stop word, every token is lowercase, and an empty or undefined text
\* yields the empty set.
C8_ExtractWordsTokens ==
  (pc = "done" /\ op = "extractWords") =>
    /\ \A i \in DOMAIN ret :
         /\ Len(ret[i]) > 2
         /\ ret[i] \notin Range(stopWords)
         /\ \A j \in 1..Len(ret[i]) : CharAt(ret[i], j) \notin UpperChars
    /\ IsFalsy(args.text) => ret = <<>>

\* A text with an uppercase stop word, capitals and punctuation has given
\* the word set of its remaining words.
C8_Witness ==
  /\ pc = "done" /\ op = "extractWords"
  /\ args.text = Str("The Fix login-bug!")
  /\ ret = <<"fix", "login", "bug">>
-----------------------------------------------------------------------------
(***************************************************************************)
(* suggestListMovement(card, allLists).                                    *)
(*                                                                         *)
(* A card is a record [_id, title, description, list, dueDate], a list a   *)
(* record [_id, title]; an ObjectId is a number.                           *)
(***************************************************************************)
MaxLists == 3

\* ObjectId.prototype.toString: the digits of the id.
RECURSIVE IdToString(_)
IdToString(id) ==
  IF id < 10 THEN CharAt(Digits, id + 1)
  ELSE IdToString(id \div 10) \o CharAt(Digits, (id % 10) + 1)

\* Array.prototype.some
some(arr, Test(_)) == \E i \in DOMAIN arr : Test(arr[i])

\* Array.prototype.find: the first element that passes the test, or
\* Undefined.
find(arr, Test(_)) ==
  LET at == {i \in DOMAIN arr : Test(arr[i])}
  IN  IF at = {} THEN Undefined
      ELSE arr[CHOOSE i \in at : \A k \in at : i <= k]

listPatterns ==
  << [keywords   |-> <<"started", "working on", "in progress", "doing", "currently">>,
      listTitles |-> <<"in progress", "doing", "work in progress", "wip">>,
      reason     |-> "Keywords suggest work has started"],
     [keywords   |-> <<"done", "completed", "finished", "complete">>,
      listTitles |-> <<"done", "completed", "finished">>,
      reason     |-> "Keywords suggest task is completed"],
     [keywords   |-> <<"testing", "test", "review", "qa">>,
      listTitles |-> <<"testing", "review", "qa", "quality assurance">>,
      reason     |-> "Keywords suggest task needs testing/review"],
     [keywords   |-> <<"blocked", "waiting", "stuck", "pending">>,
      listTitles |-> <<"blocked", "waiting", "on hold">>,
      reason     |-> "Keywords suggest task is blocked"] >>

\* The loop over listPatterns, from pattern number k on.  A variant of it
\* comes first: the loop without the comparison with card.list,
RECURSIVE checkPatternsAnyList(_, _, _, _)
checkPatternsAnyList(k, text, card, allLists) ==
  IF k > Len(listPatterns) THEN Null
  ELSE
    LET pattern == listPatterns[k]
        HasText(keyword) == includes(text, keyword)
        hasKeyword == some(pattern.keywords, HasText)
        TitleHas(list) ==
          LET InTitle(title) == includes(toLowerCase(list.title), title)
          IN  some(pattern.listTitles, InTitle)
        matchingList == find(allLists, TitleHas)
    IN  IF hasKeyword /\ matchingList # Undefined
        THEN [listId    |-> matchingList._id,
              listTitle |-> matchingList.title,
              reason    |-> pattern.reason]
        ELSE checkPatternsAnyList(k + 1, text, card, allLists)

\* and the loop of the source.
RECURSIVE checkPatterns(_, _, _, _)
checkPatterns(k, text, card, allLists) ==
  IF k > Len(listPatterns) THEN Null
  ELSE
    LET pattern == listPatterns[k]
        HasText(keyword) == includes(text, keyword)
        hasKeyword == some(pattern.keywords, HasText)
        TitleHas(list) ==
          LET InTitle(title) == includes(toLowerCase(list.title), title)
          IN  some(pattern.listTitles, InTitle)
        matchingList == find(allLists, TitleHas)
    IN  IF /\ hasKeyword
           /\ matchingList # Undefined
           /\ IdToString(matchingList._id) # IdToString(card.list)
        THEN [listId    |-> matchingList._id,
              listTitle |-> matchingList.title,
              reason    |-> pattern.reason]
        ELSE checkPatterns(k + 1, text, card, allLists)

suggestListMovement(card, allLists) ==
  IF Len(allLists) = 0 THEN Null
  ELSE
    LET text == toLowerCase(TemplateString(card.title) \o " "
                              \o TemplateString(card.description))
    IN  checkPatterns(1, text, card, allLists)

(***************************************************************************)
(* The cards and the boards' lists of the calls.  The lists of a board     *)
(* have the ids 1, 2, ... in the order the board returns them; the card    *)
(* is in one of them, or in a list the board no longer has (id 0).         *)
(***************************************************************************)
StatusTitles ==
  {Str("Deploy to prod tomorrow"), Str("Started, almost DONE"), Str("Write docs")}

StatusDescriptions ==
  {Str(""), Str("testing needed"), Str("Waiting; review is completed")}

ListTitles == {"Backlog", "Testing", "Done", "In Progress", "On hold"}

ListsOf(titles) == [i \in DOMAIN titles |-> [_id |-> i, title |-> titles[i]]]

BoardLists == {ListsOf(ts) : ts \in UNION {[1..n -> ListTitles] : n \in 0..MaxLists}}

StatusCards ==
  [_id : {1}, title : StatusTitles, description : StatusDescriptions,
   list : 0..MaxLists, dueDate : {Null}]

SuggestListMovement ==
  /\ pc = "call" /\ op = "suggestListMovement"
  /\ pc' = "done"
  /\ ret' = suggestListMovement(args.card, args.allLists)
  /\ UNCHANGED <<clock, op, args, store, service, local>>

InitList ==
  /\ ClockInit
  /\ ToCall("suggestListMovement", [card : StatusCards, allLists : BoardLists])
  /\ args.card.list <= Len(args.allLists)

NextList == SuggestListMovement

SpecList == InitList /\ [][NextList]_vars

(***************************************************************************)
(* The categories as the specification states them.                        *)
(***************************************************************************)
Categories == 1..Len(listPatterns)

\* The lowercased title and description of the card of the call.
CardText(card) ==
  toLowerCase(TemplateString(card.title) \o " " \o TemplateString(card.description))

\* A trigger keyword of category c occurs in the text.
Triggered(c, text) ==
  \E k \in DOMAIN listPatterns[c].keywords : includes(text, listPatterns[c].keywords[k])

\* The title of the list contains a destination fragment of category c.
TitleMatches(list, c) ==
  \E k \in DOMAIN listPatterns[c].listTitles :
    includes(toLowerCase(list.title), listPatterns[c].listTitles[k])

\* The positions of the board's lists that match category c.
MatchingLists(c, allLists) == {i \in DOMAIN allLists : TitleMatches(allLists[i], c)}

\* The position of the first list of the board that matches category c, 0
\* when none does.
FirstMatch(c, allLists) ==
  IF MatchingLists(c, allLists) = {} THEN 0
  ELSE CHOOSE i \in MatchingLists(c, allLists) :
         \A k \in MatchingLists(c, allLists) : i <= k

\* The categories the text triggers.
TriggeredCategories(text) == {c \in Categories : Triggered(c, text)}

CalledSuggest == pc = "done" /\ op = "suggestListMovement"

\* C9: suggestListMovement never suggests the card's current list: a
\* suggestion is a list of the board other than card.list, whose title
\* contains a fragment of a triggered category, with that category's
\* reason; when the only lists that match a triggered category are the
\* card's current list, nothing is returned.
C9_NeverSuggestsCurrentList ==
  CalledSuggest =>
    LET T == TriggeredCategories(CardText(args.card))
    IN  /\ ret # Null =>
             \E i \in DOMAIN args.allLists :
               /\ ret.listId = args.allLists[i]._id
               /\ ret.listTitle = args.allLists[i].title
               /\ ret.listId # args.card.list
               /\ \E c \in T :
                    /\ TitleMatches(args.allLists[i], c)
                    /\ ret.reason = listPatterns[c].reason
        /\ (\A c \in T :
              \A i \in MatchingLists(c, args.allLists) :
                args.allLists[i]._id = args.card.list)
             => ret = Null

\* A category is triggered, the board has a list that matches it, that list
\* is the card's current list, and nothing was suggested.
C9_Witness ==
  /\ CalledSuggest
  /\ ret = Null
  /\ \E c \in TriggeredCategories(CardText(args.card)) :
       /\ MatchingLists(c, args.allLists) # {}
       /\ \A i \in MatchingLists(c, args.allLists) :
            args.allLists[i]._id = args.card.list

\* Those of the categories T that have a matching list of the board other
\* than the card's current list.
WithOtherList(T, card, allLists) ==
  {c \in T : \E i \in MatchingLists(c, allLists) : allLists[i]._id # card.list}

\* Those of the categories T whose first matching list of the board is
\* other than the card's current list.
WithOtherFirstList(T, card, allLists) ==
  {c \in T : LET i == FirstMatch(c, allLists)
             IN  i # 0 /\ allLists[i]._id # card.list}

Highest(S) == CHOOSE c \in S : \A d \in S : c <= d

\* The example of the specification.
ExampleCard ==
  [_id |-> 1, title |-> Str("Deploy to prod tomorrow"),
   description |-> Str("testing needed"), list |-> 1, dueDate |-> Null]

ExampleLists == ListsOf(<<"Backlog", "Testing", "Done">>)

\* C10 as stated: when the text triggers several categories and each of
\* them has a matching board list other than the card's current list, the
\* suggestion is the one of the highest-priority triggered category; a
\* lower-priority category is used only when every higher-priority category
\* is not triggered or has no matching list other than the current one.
C10_AsStated ==
  CalledSuggest =>
    LET T == TriggeredCategories(CardText(args.card))
        W == WithOtherList(T, args.card, args.allLists)
    IN  /\ (Cardinality(T) >= 2 /\ T = W) =>
             (ret # Null /\ ret.reason = listPatterns[Highest(T)].reason)
        /\ ret # Null =>
             \E c \in T :
               /\ ret.reason = listPatterns[c].reason
               /\ \A d \in 1..(c - 1) : d \notin W

\* C10 over the first matching lists, which is what the code honours: when
\* the text triggers several categories and the first
\* board list matching each of them is other than the card's current list,
\* the suggestion is that first list of the highest-priority triggered
\* category; a lower-priority category is used only when every
\* higher-priority category is not triggered, or matches no list, or has the
\* current list as its first matching list.  The example of the
\* specification gives Testing.
C10_CategoryPriority ==
  CalledSuggest =>
    LET T == TriggeredCategories(CardText(args.card))
        F == WithOtherFirstList(T, args.card, args.allLists)
    IN  /\ (Cardinality(T) >= 2 /\ T = F) =>
             /\ ret # Null
             /\ ret.reason = listPatterns[Highest(T)].reason
             /\ ret.listId = args.allLists[FirstMatch(Highest(T), args.allLists)]._id
        /\ ret # Null =>
             \E c \in T :
               /\ ret.reason = listPatterns[c].reason
               /\ \A d \in 1..(c - 1) : d \notin F
        /\ (args.card = ExampleCard /\ args.allLists = ExampleLists) =>
             ret = [listId |-> 2, listTitle |-> "Testing",
                    reason |-> "Keywords suggest task needs testing/review"]

\* The text triggers two categories at least, each with a first matching
\* list other than the current one, and the suggestion is the one of the
\* highest-priority category.
C10_Witness ==
  /\ CalledSuggest
  /\ LET T == TriggeredCategories(CardText(args.card))
     IN  /\ Cardinality(T) >= 2
         /\ T = WithOtherFirstList(T, args.card, args.allLists)
         /\ ret # Null
         /\ ret.reason = listPatterns[Highest(T)].reason

-----------------------------------------------------------------------------
(***************************************************************************)
(* findRelatedCards(card, allCards, limit = 5, threshold = 0.2).           *)
(*                                                                         *)
(* The optional arguments are the fields of the record opts: a field that  *)
(* is absent is an argument the caller leaves out.                         *)
(***************************************************************************)
MaxCards == 3

DefaultLimit == 5

\* 0.2, the double nearest to 1/5, which is also the double of 1 / 5.
DefaultThreshold == Quotient(1, 5)

\* Array.prototype.slice(0, end) for end >= 0
slice(arr, end) == SubSeq(arr, 1, IF end < Len(arr) THEN end ELSE Len(arr))

\* c => c._id.toString() !== card._id.toString()
keepAllCards(c, card) == TRUE

isOtherCard(c, card) == IdToString(c._id) # IdToString(card._id)

\* Array.prototype.sort with (a, b) => b.similarity - a.similarity.  The sort
\* is stable: an item goes behind the items that do not sort after it.
RECURSIVE sortUnstable(_)
sortUnstable(items) ==
  IF items = <<>> THEN <<>>
  ELSE LET init == sortUnstable(SubSeq(items, 1, Len(items) - 1))
           last == items[Len(items)]
           ahead == {i \in DOMAIN init : NumGt(init[i].similarity, last.similarity)}
           n == Cardinality(ahead)
       IN  SubSeq(init, 1, n) \o <<last>> \o SubSeq(init, n + 1, Len(init))

RECURSIVE sortBySimilarity(_)
sortBySimilarity(items) ==
  IF items = <<>> THEN <<>>
  ELSE LET init == sortBySimilarity(SubSeq(items, 1, Len(items) - 1))
           last == items[Len(items)]
           ahead == {i \in DOMAIN init : NumGeq(init[i].similarity, last.similarity)}
           n == Cardinality(ahead)
       IN  SubSeq(init, 1, n) \o <<last>> \o SubSeq(init, n + 1, Len(init))

\* `${card.title} ${card.description}`
CardContent(card) ==
  Str(TemplateString(card.title) \o " " \o TemplateString(card.description))

findRelatedCards(card, allCards, opts) ==
  LET limit == IF "limit" \in DOMAIN opts THEN opts.limit ELSE DefaultLimit
      threshold == IF "threshold" \in DOMAIN opts THEN opts.threshold ELSE DefaultThreshold
      currentWords == extractWords(CardContent(card))
      Other(c) == isOtherCard(c, card)
      others == filter(allCards, Other)
      mapped ==
        [i \in DOMAIN others |->
           [card |-> [_id |-> others[i]._id, title |-> others[i].title,
                      list |-> others[i].list, dueDate |-> others[i].dueDate],
            similarity |-> jaccardSimilarity(currentWords,
                                             extractWords(CardContent(others[i])))]]
      Passes(item) == NumGeq(item.similarity, threshold)
  IN  IF Len(allCards) = 0 THEN <<>>
      ELSE IF size(currentWords) = 0 THEN <<>>
      ELSE slice(sortBySimilarity(filter(mapped, Passes)), limit)

(***************************************************************************)
(* The cards of the calls.  The cards of a board have the ids 1, 2, ... in *)
(* the order the board returns them.  The target card is a card of the     *)
(* board, or a card with the id 0 that the board does not hold.  Small     *)
(* boards hold up to MaxCards cards of any content; large boards hold more *)
(* cards than the default limit, of two contents.                          *)
(***************************************************************************)
CardContents ==
  { [title |-> Str("Fix login bug"),  description |-> Str("")],
    [title |-> Str("Fix login page"), description |-> Str("bug")],
    [title |-> Str("Login page"),     description |-> Str("docs")],
    [title |-> Str("Write docs"),     description |-> Str("today")] }

\* A card without a meaningful word.
EmptyContent == [title |-> Str("Is it"), description |-> Str("")]

LargeBoardContents ==
  { [title |-> Str("Fix login bug"),  description |-> Str("")],
    [title |-> Str("Write docs"),     description |-> Str("today")] }

CardOf(id, content) ==
  [_id |-> id, title |-> content.title, description |-> content.description,
   list |-> 1, dueDate |-> Null]

CardsOf(contents) == [i \in DOMAIN contents |-> CardOf(i, contents[i])]

SmallBoards ==
  {CardsOf(cs) : cs \in UNION {[1..n -> CardContents] : n \in 0..MaxCards}}

LargeBoards ==
  {CardsOf(cs) : cs \in UNION {[1..n -> LargeBoardContents] :
                                 n \in {DefaultLimit + 2}}}

\* The target cards for a board: its own cards and the cards it lacks.
TargetCards(allCards) ==
  Range(allCards) \cup {CardOf(0, c) : c \in LargeBoardContents \cup {EmptyContent}}

RelatedOpts ==
  {<<>>}
    \cup [limit : {0, 1, 2}]
    \cup [limit : {1, 2}, threshold : {Zero, Quotient(1, 2)}]

FindRelatedCards ==
  /\ pc = "call" /\ op = "findRelatedCards"
  /\ pc' = "done"
  /\ ret' = findRelatedCards(args.card, args.allCards, args.opts)
  /\ UNCHANGED <<clock, op, args, store, service, local>>

InitRelated ==
  /\ ClockInit
  /\ pc = "call" /\ op = "findRelatedCards" /\ ret = Null
  /\ store = NoStore /\ service = NoService /\ local = NoLocal
  /\ \/ \E b \in SmallBoards : \E c \in TargetCards(b) : \E o \in RelatedOpts :
          args = [card |-> c, allCards |-> b, opts |-> o]
     \/ \E b \in LargeBoards : \E c \in TargetCards(b) :
          args = [card |-> c, allCards |-> b, opts |-> <<>>]

NextRelated == FindRelatedCards

SpecRelated == InitRelated /\ [][NextRelated]_vars

(***************************************************************************)
(* The related cards as the specification states them.                     *)
(***************************************************************************)
CalledRelated == pc = "done" /\ op = "findRelatedCards"

\* The limit and the threshold in force: the caller's, or 5 and 0.2.
LimitInForce == IF "limit" \in DOMAIN args.opts THEN args.opts.limit ELSE 5

ThresholdInForce ==
  IF "threshold" \in DOMAIN args.opts THEN args.opts.threshold ELSE Quotient(1, 5)

\* The similarities of the target card and the cards of the collection, in
\* the order of the collection.
RECURSIVE SimilaritiesUpTo(_)
SimilaritiesUpTo(n) ==
  IF n = 0 THEN <<>>
  ELSE Append(SimilaritiesUpTo(n - 1),
              jaccardSimilarity(extractWords(CardContent(args.card)),
                                extractWords(CardContent(args.allCards[n]))))

Similarities == SimilaritiesUpTo(Len(args.allCards))

\* The candidates: the positions of the cards other than the target whose
\* similarity sim[i] passes the threshold.
Candidates(sim) ==
  {i \in DOMAIN args.allCards :
     /\ args.allCards[i]._id # args.card._id
     /\ NumGeq(sim[i], ThresholdInForce)}

\* Candidate j comes before candidate i: it is more similar, or as similar
\* and earlier in the collection.
ComesBefore(sim, j, i) ==
  \/ NumGt(sim[j], sim[i])
  \/ NumEq(sim[j], sim[i]) /\ j < i

\* The result is the first `limit` candidates of the ordering.
IsTopOfOrdering ==
  LET sim == Similarities
      C == Candidates(sim)
      rank == [i \in C |-> Cardinality({j \in C : ComesBefore(sim, j, i)})]
  IN  /\ Len(ret) = (IF Cardinality(C) < LimitInForce
                     THEN Cardinality(C) ELSE LimitInForce)
      /\ \A i \in C :
           rank[i] < LimitInForce =>
             /\ ret[rank[i] + 1].card._id = args.allCards[i]._id
             /\ NumEq(ret[rank[i] + 1].similarity, sim[i])

IsOrdered ==
  \A k \in 1..(Len(ret) - 1) :
    /\ NumGeq(ret[k].similarity, ret[k + 1].similarity)
    /\ NumEq(ret[k].similarity, ret[k + 1].similarity) =>
         \E i, j \in DOMAIN args.allCards :
           /\ i < j
           /\ args.allCards[i]._id = ret[k].card._id
           /\ args.allCards[j]._id = ret[k + 1].card._id

\* C5: the result of findRelatedCards never contains the target card, has
\* at most limit entries, and every entry has a similarity >= threshold;
\* with the defaults the limit is 5 and the threshold 0.2.
C5_RelatedCardsWithinBounds ==
  CalledRelated =>
    /\ Len(ret) <= LimitInForce
    /\ \A k \in DOMAIN ret :
         /\ ret[k].card._id # args.card._id
         /\ NumGeq(ret[k].similarity, ThresholdInForce)

\* The target is a card of the collection, more than 5 other cards pass the
\* default threshold, and the default call has returned 5 of them.
C5_Witness ==
  /\ CalledRelated
  /\ args.opts = <<>>
  /\ \E i \in DOMAIN args.allCards : args.allCards[i] = args.card
  /\ Cardinality(Candidates(Similarities)) > 5
  /\ Len(ret) = 5

\* C6 as stated: the result is ordered by non-increasing similarity, equal
\* similarities keep the order of the collection, and the result is the
\* first `limit` entries of that ordering of all candidates that pass the
\* threshold.
C6_AsStated == CalledRelated => (IsOrdered /\ IsTopOfOrdering)

\* C6 as amended: the same, for a target card whose title and description
\* hold a meaningful word; for a target card without one the result is
\* empty.
C6_OrderedTopOfCandidates ==
  CalledRelated =>
    IF extractWords(CardContent(args.card)) = <<>>
    THEN ret = <<>>
    ELSE IsOrdered /\ IsTopOfOrdering

\* Two candidates of equal similarity were returned in the order of the
\* collection, and the limit has cut a candidate off.
C6_Witness ==
  /\ CalledRelated
  /\ Cardinality(Candidates(Similarities)) > LimitInForce
  /\ \E k \in 1..(Len(ret) - 1) :
       /\ NumEq(ret[k].similarity, ret[k + 1].similarity)
       /\ ret[k].card._id < ret[k + 1].card._id

-----------------------------------------------------------------------------
(***************************************************************************)
(* analyzeCard(card, boardCards = [], boardLists = []).                    *)
(*                                                                         *)
(* The two calls of parseDateKeywords read the clock one after the other:  *)
(* titleNow and descriptionNow are the two values of new Date().           *)
(***************************************************************************)
\* The helper extractDateReason of analyzeCard; text?.toLowerCase() || ''.
extractDateReason(text) ==
  LET lowerText    == IF IsFalsy(text) THEN "" ELSE toLowerCase(text.val)
      inDaysMatch  == RegexMatch(lowerText, "day")
      inWeeksMatch == RegexMatch(lowerText, "week")
  IN
  IF includes(lowerText, "tomorrow") THEN "Mentioned \"tomorrow\""
  ELSE IF includes(lowerText, "today") THEN "Mentioned \"today\""
  ELSE IF includes(lowerText, "next week") THEN "Mentioned \"next week\""
  ELSE IF includes(lowerText, "this week") \/ includes(lowerText, "end of week")
    THEN "Mentioned \"this week\""
  ELSE IF includes(lowerText, "next month") THEN "Mentioned \"next month\""
  ELSE IF inDaysMatch # Null THEN "Mentioned \"in " \o inDaysMatch.val \o " days\""
  ELSE IF inWeeksMatch # Null THEN "Mentioned \"in " \o inWeeksMatch.val \o " weeks\""
  ELSE "Based on card content"

\* The three generic tips; the icons are emoji, named here by their names.
smartTips ==
  << [icon |-> "light bulb",
      tip  |-> "Add time keywords like \"tomorrow\", \"next week\", or \"in 3 days\" to get due date suggestions"],
     [icon |-> "direct hit",
      tip  |-> "Use keywords like \"started working\", \"completed\", or \"testing\" to get list movement suggestions"],
     [icon |-> "link",
      tip  |-> "Create similar cards with related topics to see related card recommendations"] >>

\* The analysis with the field smartTips added to it.
WithSmartTips(analysis) ==
  [f \in DOMAIN analysis \cup {"smartTips"} |->
     IF f = "smartTips" THEN smartTips ELSE analysis[f]]

\* if (!suggestedDueDates.length && !suggestedListMovement && !relatedCards.length)
nothingFoundDatesOnly(analysis) == Len(analysis.suggestedDueDates) = 0

nothingFound(analysis) ==
  /\ Len(analysis.suggestedDueDates) = 0
  /\ analysis.suggestedListMovement = Null
  /\ Len(analysis.relatedCards) = 0

analyzeCard(card, boardCards, boardLists, titleNow, descriptionNow) ==
  LET titleDate == parseDateKeywords(card.title, titleNow)
      descriptionDate == parseDateKeywords(card.description, descriptionNow)
      fromTitle ==
        IF titleDate # Null
        THEN << [date |-> titleDate, source |-> "title", confidence |-> "high",
                 reason |-> extractDateReason(card.title)] >>
        ELSE <<>>
      fromDescription ==
        IF descriptionDate # Null
             /\ (titleDate = Null \/ TimeDiffers(descriptionDate, titleDate))
        THEN << [date |-> descriptionDate, source |-> "description",
                 confidence |-> "medium",
                 reason |-> extractDateReason(card.description)] >>
        ELSE <<>>
      analysis ==
        [suggestedDueDates     |-> fromTitle \o fromDescription,
         suggestedListMovement |-> suggestListMovement(card, boardLists),
         relatedCards          |-> findRelatedCards(card, boardCards, <<>>)]
  IN  IF nothingFound(analysis) THEN WithSmartTips(analysis) ELSE analysis

(***************************************************************************)
(* The cards, boards and lists analyzeCard is called with.  The target     *)
(* card has the id 1 and is in list 1.                                     *)
(***************************************************************************)
AnalysisTitles ==
  {Str("Deploy to prod tomorrow"), Str("Fix login bug"), Str("Is it")}

AnalysisDescriptions == {Str(""), Str("testing needed"), Str("due Tomorrow")}

AnalysisCards ==
  [_id : {1}, title : AnalysisTitles, description : AnalysisDescriptions,
   list : {1}, dueDate : {Null}]

AnalysisBoards ==
  {CardsOf(cs) : cs \in UNION {[1..n -> LargeBoardContents] : n \in 0..MaxCards}}

AnalysisLists ==
  {ListsOf(<<>>), ListsOf(<<"Testing">>), ListsOf(<<"Backlog", "Testing", "Done">>)}

\* The values of new Date() once time has gone on from now.
LaterClocks(now) ==
  {now} \cup (IF now.ms = 0 THEN {MakeDate(now.day, MsPerDay - 1)}
              ELSE {MakeDate(now.day + 1, 0)})

AnalyzeCard ==
  /\ pc = "call" /\ op = "analyzeCard"
  /\ \E later \in LaterClocks(clock) :
       /\ clock' = later
       /\ args' = [card |-> args.card, boardCards |-> args.boardCards,
                   boardLists |-> args.boardLists,
                   titleNow |-> clock, descriptionNow |-> later]
       /\ ret' = analyzeCard(args.card, args.boardCards, args.boardLists, clock, later)
  /\ pc' = "done"
  /\ UNCHANGED <<op, store, service, local>>

Init ==
  /\ ClockInit
  /\ ToCall("analyzeCard",
            [card : AnalysisCards, boardCards : AnalysisBoards,
             boardLists : AnalysisLists])

Next == Tick \/ AnalyzeCard

Spec == Init /\ [][Next]_vars

\* C1: the result of analyzeCard has a field smartTips if and only if
\* suggestedDueDates is empty, suggestedListMovement is null and
\* relatedCards is empty; when present, smartTips holds exactly 3 tips.
C1_SmartTipsIffNothingFound ==
  (pc = "done" /\ op = "analyzeCard") =>
    /\ "smartTips" \in DOMAIN ret <=>
         /\ ret.suggestedDueDates = <<>>
         /\ ret.suggestedListMovement = Null
         /\ ret.relatedCards = <<>>
    /\ "smartTips" \in DOMAIN ret => Len(ret.smartTips) = 3

\* A card without date keyword, status keyword and related card has got
\* the three tips.
C1_Witness ==
  /\ pc = "done" /\ op = "analyzeCard"
  /\ args.boardCards # <<>>
  /\ args.boardLists # <<>>
  /\ "smartTips" \in DOMAIN ret
  /\ Len(ret.smartTips) = 3
  /\ ret.suggestedDueDates = <<>>
  /\ ret.suggestedListMovement = Null
  /\ ret.relatedCards = <<>>

(***************************************************************************)
(* The due-date suggestions of analyzeCard.  Each of the two calls of      *)
(* parseDateKeywords reads new Date() for itself: the action AnalyzeCard   *)
(* gives the title the clock of the call and the description a clock that  *)
(* is the same or later.                                                   *)
(***************************************************************************)
CalledAnalyze == pc = "done" /\ op = "analyzeCard"

\* The date rule of a field of the card, 0 when it has none.
RuleOf(text) == IF IsFalsy(text) THEN 0 ELSE FirstDateRule(toLowerCase(text.val))

\* Title and description match the same date rule.
SameDateRule(card) ==
  /\ RuleOf(card.title) \in 1..5
  /\ RuleOf(card.title) = RuleOf(card.description)

\* C11: analyzeCard returns no duplicate due-date suggestions; when title
\* and description match the same date rule the result holds exactly one
\* suggestion, the one of the title with confidence high, at whatever moment
\* the two parses read the clock.
C11_NoDuplicateDates ==
  CalledAnalyze =>
    /\ \A i, j \in DOMAIN ret.suggestedDueDates :
         i # j => ret.suggestedDueDates[i].date # ret.suggestedDueDates[j].date
    /\ SameDateRule(args.card) =>
         /\ Len(ret.suggestedDueDates) = 1
         /\ ret.suggestedDueDates[1].source = "title"
         /\ ret.suggestedDueDates[1].confidence = "high"

\* The same when both parses read the same clock.
C11_SameClock ==
  (CalledAnalyze /\ args.titleNow = args.descriptionNow) =>
    /\ \A i, j \in DOMAIN ret.suggestedDueDates :
         i # j => ret.suggestedDueDates[i].date # ret.suggestedDueDates[j].date
    /\ SameDateRule(args.card) =>
         /\ Len(ret.suggestedDueDates) = 1
         /\ ret.suggestedDueDates[1].source = "title"
         /\ ret.suggestedDueDates[1].confidence = "high"

\* Midnight passes between the two parses of a card that says "tomorrow"
\* twice.
C11_MidnightBetween ==
  /\ CalledAnalyze
  /\ SameDateRule(args.card)
  /\ args.titleNow.day # args.descriptionNow.day
  /\ Len(ret.suggestedDueDates) = 2

(***************************************************************************)
(* The AI adapter (utils/geminiAI.js).  A call of a function ends in a     *)
(* completion: Return(v) or Throw(e).  The reply of the generative-text    *)
(* service is a completion too: the response object, or the error the      *)
(* request was rejected with.                                              *)
(***************************************************************************)
Return(v) == [kind |-> "return", value |-> v]

Throw(e) == [kind |-> "throw", value |-> e]

Error(name, message) == [type |-> "error", name |-> name, message |-> message]

\* The position of the first / last character c of s, 0 when s has none.
FirstIndexOf(s, c) ==
  IF \E i \in 1..Len(s) : CharAt(s, i) = c
  THEN CHOOSE i \in 1..Len(s) :
         CharAt(s, i) = c /\ \A k \in 1..(i - 1) : CharAt(s, k) # c
  ELSE 0

LastIndexOf(s, c) ==
  IF \E i \in 1..Len(s) : CharAt(s, i) = c
  THEN CHOOSE i \in 1..Len(s) :
         CharAt(s, i) = c /\ \A k \in (i + 1)..Len(s) : CharAt(s, k) # c
  ELSE 0

\* text.match(/\{[\s\S]*\}/): [\s\S]* is greedy, the match runs from the
\* first "{" to the last "}" of the text.
matchBraces(text) ==
  LET i == FirstIndexOf(text, "{")
      j == LastIndexOf(text, "}")
  IN  IF i = 0 \/ j < i THEN Null ELSE Str(SubString(text, i, j))

(***************************************************************************)
(* JSON.parse.  A parsed value is a record: Str(s), Num(n), Bool(b), Null, *)
(* Arr(elements) or Obj(members), the members a sequence of [key, value]   *)
(* in insertion order without duplicate keys.  A step of the parser gives  *)
(* [ok, val, pos]: whether a value was read, the value, and the position   *)
(* after it.  Strings hold no escape sequences and numbers are unsigned    *)
(* integers.                                                               *)
(***************************************************************************)
Num(n) == [type |-> "number", val |-> n]

Bool(b) == [type |-> "boolean", val |-> b]

Arr(elements) == [type |-> "array", elements |-> elements]

Obj(members) == [type |-> "object", members |-> members]

JsonFail == [ok |-> FALSE, val |-> Undefined, pos |-> 0]

JsonOk(v, p) == [ok |-> TRUE, val |-> v, pos |-> p]

JsonWhitespace == {" ", "\n", "\t", "\r"}

\* The position of the first character from i on that is no whitespace.
RECURSIVE JsonWs(_, _)
JsonWs(s, i) ==
  IF i <= Len(s) /\ CharAt(s, i) \in JsonWhitespace THEN JsonWs(s, i + 1) ELSE i

\* The members with the member key: value set, a later value for a key
\* replacing the earlier one.
SetMember(members, key, value) ==
  IF \E k \in DOMAIN members : members[k].key = key
  THEN [k \in DOMAIN members |->
          IF members[k].key = key THEN [key |-> key, value |-> value]
          ELSE members[k]]
  ELSE Append(members, [key |-> key, value |-> value])

\* A string literal that starts at position i.
JsonString(s, i) ==
  IF CharAt(s, i) # "\"" THEN JsonFail
  ELSE LET rest == SubString(s, i + 1, Len(s))
           n == FirstIndexOf(rest, "\"")
       IN  IF n = 0 \/ includes(SubString(rest, 1, n - 1), "\\") THEN JsonFail
           ELSE JsonOk(Str(SubString(rest, 1, n - 1)), i + n + 1)

RECURSIVE JsonValue(_, _)
RECURSIVE JsonMembers(_, _, _)
RECURSIVE JsonElements(_, _, _)

\* The members of an object from position i on, after the members acc.
JsonMembers(s, i, acc) ==
  LET key == JsonString(s, JsonWs(s, i))
  IN  IF ~key.ok THEN JsonFail
      ELSE LET colon == JsonWs(s, key.pos)
           IN  IF CharAt(s, colon) # ":" THEN JsonFail
               ELSE LET value == JsonValue(s, colon + 1)
                    IN  IF ~value.ok THEN JsonFail
                        ELSE LET next == JsonWs(s, value.pos)
                                 members == SetMember(acc, key.val.val, value.val)
                             IN  IF CharAt(s, next) = "," THEN JsonMembers(s, next + 1, members)
                                 ELSE IF CharAt(s, next) = "}" THEN JsonOk(Obj(members), next + 1)
                                 ELSE JsonFail

\* The elements of an array from position i on, after the elements acc.
JsonElements(s, i, acc) ==
  LET value == JsonValue(s, i)
  IN  IF ~value.ok THEN JsonFail
      ELSE LET next == JsonWs(s, value.pos)
               elements == Append(acc, value.val)
           IN  IF CharAt(s, next) = "," THEN JsonElements(s, next + 1, elements)
               ELSE IF CharAt(s, next) = "]" THEN JsonOk(Arr(elements), next + 1)
               ELSE JsonFail

JsonValue(s, i) ==
  LET j == JsonWs(s, i)
      c == CharAt(s, j)
  IN  IF c = "{"
        THEN LET k == JsonWs(s, j + 1)
             IN  IF CharAt(s, k) = "}" THEN JsonOk(Obj(<<>>), k + 1)
                 ELSE JsonMembers(s, k, <<>>)
      ELSE IF c = "["
        THEN LET k == JsonWs(s, j + 1)
             IN  IF CharAt(s, k) = "]" THEN JsonOk(Arr(<<>>), k + 1)
                 ELSE JsonElements(s, k, <<>>)
      ELSE IF c = "\"" THEN JsonString(s, j)
      ELSE IF IsDigit(c)
        THEN LET n == IF c = "0" THEN 1 ELSE DigitRun(s, j)
             IN  JsonOk(Num(parseInt(SubString(s, j, j + n - 1))), j + n)
      ELSE IF SubString(s, j, j + 3) = "true" THEN JsonOk(Bool(TRUE), j + 4)
      ELSE IF SubString(s, j, j + 4) = "false" THEN JsonOk(Bool(FALSE), j + 5)
      ELSE IF SubString(s, j, j + 3) = "null" THEN JsonOk(Null, j + 4)
      ELSE JsonFail

\* JSON.parse(text): the value, or a SyntaxError.
JSONparse(text) ==
  LET r == JsonValue(text, 1)
  IN  IF r.ok /\ JsonWs(text, r.pos) > Len(text) THEN Return(r.val)
      ELSE Throw(Error("SyntaxError", Str("Unexpected token in JSON")))

\* object.key of a parsed object: undefined for a key it lacks.
Get(object, key) ==
  IF \E k \in DOMAIN object.members : object.members[k].key = key
  THEN object.members[CHOOSE k \in DOMAIN object.members :
                        object.members[k].key = key].value
  ELSE Undefined

\* !v for a parsed value.
IsFalsyValue(v) ==
  \/ v.type \in {"undefined", "null"}
  \/ v.type = "string" /\ v.val = ""
  \/ v.type = "number" /\ v.val = 0
  \/ v.type = "boolean" /\ ~v.val

(***************************************************************************)
(* getAISuggestions and getCardInsights.  key is the value of              *)
(* process.env.GEMINI_API_KEY and reply the completion of                  *)
(* ai.models.generateContent.  The functions give their completion and the *)
(* requests they made to the service.                                      *)
(***************************************************************************)
\* Array.prototype.join(', ') of text values; undefined gives "".
RECURSIVE join(_)
join(arr) ==
  IF arr = <<>> THEN ""
  ELSE LET first == IF arr[1].type = "string" THEN arr[1].val ELSE ""
       IN  IF Len(arr) = 1 THEN first ELSE first \o ", " \o join(Tail(arr))

\* The values the prompt is made of.
prompt(card, boardLists, boardCards) ==
  LET listNames == join([i \in DOMAIN boardLists |-> Str(boardLists[i].title)])
      Other(c) == IdToString(c._id) # IdToString(card._id)
      others == slice(filter(boardCards, Other), 10)
      cardTitles == join([i \in DOMAIN others |-> others[i].title])
  IN  [title       |-> TemplateString(card.title),
       description |-> IF IsFalsy(card.description) THEN "No description"
                       ELSE card.description.val,
       listNames   |-> IF listNames = "" THEN "To Do, In Progress, Done" ELSE listNames,
       cardTitles  |-> IF cardTitles = "" THEN "None" ELSE cardTitles]

\* A catch clause that hands the error on.
catchRethrow(error) == Throw(error)

\* The catch clause of getAISuggestions: it logs, reads
\* error.message?.includes('API key') and returns null.
catchAI(error) ==
  IF error.type \in {"undefined", "null"}
  THEN Throw(Error("TypeError", Str("Cannot read properties of undefined")))
  ELSE Return(Null)

\* if (jsonMatch) return JSON.parse(jsonMatch[0]); return null
parseMatch(jsonMatch) ==
  IF jsonMatch # Null THEN JSONparse(jsonMatch.val) ELSE Return(Null)

\* The body of the try block from the reply on: the match and JSON.parse.
parseReply(reply) ==
  IF reply.kind = "throw" THEN reply
  ELSE IF reply.value.text.type # "string"
    THEN Throw(Error("TypeError", Str("Cannot read properties of undefined")))
  ELSE parseMatch(matchBraces(reply.value.text.val))

\* try { ... } catch (error) { ... } of getAISuggestions
tryCatchAI(body) == IF body.kind = "throw" THEN catchAI(body.value) ELSE body

getAISuggestions(card, boardLists, boardCards, key, reply) ==
  IF IsFalsy(key) \/ key = Str("undefined")
  THEN [completion |-> Return(Null), requests |-> <<>>]
  ELSE [completion |-> tryCatchAI(parseReply(reply)),
        requests   |-> << [model    |-> "gemini-2.0-flash-exp",
                           contents |-> prompt(card, boardLists, boardCards)] >>]

\* The body of getCardInsights once getAISuggestions has completed.
insightsOf(completion) ==
  IF completion.kind = "throw" THEN Return(Null)
  ELSE IF IsFalsyValue(completion.value) THEN Return(Null)
  ELSE Return([aiPowered         |-> TRUE,
               dueDateSuggestion |-> Get(completion.value, "dueDateSuggestion"),
               listMovement      |-> Get(completion.value, "listMovement"),
               insights          |-> Get(completion.value, "insights")])

\* getCardInsights with a second request to the service after a failed one,
getCardInsightsRetry(card, boardCards, boardLists, key, reply) ==
  LET called == getAISuggestions(card, boardLists, boardCards, key, reply)
  IN  [completion |-> insightsOf(called.completion),
       requests   |-> IF reply.kind = "throw" THEN called.requests \o called.requests
                      ELSE called.requests]

\* and as in the source.
getCardInsights(card, boardCards, boardLists, key, reply) ==
  LET called == getAISuggestions(card, boardLists, boardCards, key, reply)
  IN  [completion |-> insightsOf(called.completion), requests |-> called.requests]

(***************************************************************************)
(* The calls of the adapter: the key, the reply and the card.              *)
(***************************************************************************)
ApiKeys == {Undefined, Str(""), Str("undefined"), Str("AIza-key")}

ReplyPrefixes == {"", "Sure: "}

ReplyBlocks ==
  { "",
    "{}",
    "{\"listMovement\": {\"shouldMove\": true, \"suggestedList\": \"Done\"}}",
    "{\"insights\":{\"priority\":\"high\",\"actionableSteps\":[\"deploy\"]},\"dueDateSuggestion\":null}",
    "{not json}" }

ReplySuffixes == {"", " done", " as {requested}", " }"}

ReplyTexts ==
  {p \o b \o x : p \in ReplyPrefixes, b \in ReplyBlocks, x \in ReplySuffixes}

Replies ==
  {Return([text |-> Str(t)]) : t \in ReplyTexts}
    \cup {Return([text |-> Undefined]),
          Throw(Error("ApiError", Str("API key not valid"))),
          Throw(Error("TypeError", Str("fetch failed"))),
          Throw(Error("Error", Undefined))}

InsightCards == {CardOf(1, c) : c \in LargeBoardContents}

InsightBoards == {CardsOf(<<>>), CardsOf(<<EmptyContent, EmptyContent>>)}

InsightLists == {ListsOf(<<>>), ListsOf(<<"Backlog", "Done">>)}

GetAISuggestions ==
  /\ pc = "call" /\ op = "getAISuggestions"
  /\ LET called == getAISuggestions(args.card, args.boardLists, args.boardCards,
                                    args.key, args.reply)
     IN  /\ ret' = called.completion
         /\ service' = service \o called.requests
  /\ pc' = "done"
  /\ UNCHANGED <<clock, op, args, store, local>>

GetCardInsights ==
  /\ pc = "call" /\ op = "getCardInsights"
  /\ LET called == getCardInsights(args.card, args.boardCards, args.boardLists,
                                   args.key, args.reply)
     IN  /\ ret' = called.completion
         /\ service' = service \o called.requests
  /\ pc' = "done"
  /\ UNCHANGED <<clock, op, args, store, local>>

InitInsights ==
  /\ ClockInit
  /\ \E f \in {"getAISuggestions", "getCardInsights"} :
       ToCall(f, [card : InsightCards, boardCards : InsightBoards,
                  boardLists : InsightLists, key : ApiKeys, reply : Replies])

NextInsights == GetAISuggestions \/ GetCardInsights

SpecInsights == InitInsights /\ [][NextInsights]_vars

CalledAdapter == pc = "done" /\ op \in {"getAISuggestions", "getCardInsights"}

\* The service key is unset.
KeyUnset == IsFalsy(args.key) \/ args.key = Str("undefined")

\* The text of the reply, Undefined when the call failed or gave no text.
ReplyText ==
  IF args.reply.kind = "return" /\ args.reply.value.text.type = "string"
  THEN args.reply.value.text ELSE Undefined

\* The text holds a "{" with a "}" somewhere after it.
HasBlock(text) ==
  \E i, j \in 1..Len(text) : i < j /\ CharAt(text, i) = "{" /\ CharAt(text, j) = "}"

\* C12: getAISuggestions and getCardInsights raise no error; they return
\* null when the key is unset, when the external call fails, when the reply
\* holds no {...} block and when the extracted block is not valid JSON; a
\* result other than null comes from a reply with a parseable block only.
C12_AdapterNeverThrows ==
  CalledAdapter =>
    /\ ret.kind = "return"
    /\ KeyUnset => ret.value = Null
    /\ args.reply.kind = "throw" => ret.value = Null
    /\ (ReplyText = Undefined \/ ~HasBlock(TemplateString(ReplyText))) => ret.value = Null
    /\ (ReplyText # Undefined /\ HasBlock(ReplyText.val)
          /\ JSONparse(matchBraces(ReplyText.val).val).kind = "throw")
         => ret.value = Null
    /\ ret.value # Null =>
         /\ ~KeyUnset
         /\ ReplyText # Undefined
         /\ HasBlock(ReplyText.val)
         /\ JSONparse(matchBraces(ReplyText.val).val).kind = "return"

\* The key is set, the external call was made and failed, and
\* getAISuggestions returned null.
C12_Witness ==
  /\ CalledAdapter
  /\ op = "getAISuggestions"
  /\ ~KeyUnset
  /\ args.reply.kind = "throw"
  /\ Len(service) = 1
  /\ ret = Return(Null)

\* The first balanced {...} block of the text, Null when it has none: it
\* opens at the first "{" and is closed by the first "}" up to which as many
\* braces are closed as are opened.
FirstBalancedBlock(text) ==
  LET i == FirstIndexOf(text, "{")
      braces == {k \in 1..Len(text) : CharAt(text, k) \in {"{", "}"}}
      Opened(j) == Cardinality({k \in braces : i <= k /\ k <= j /\ CharAt(text, k) = "{"})
      Closed(j) == Cardinality({k \in braces : i <= k /\ k <= j /\ CharAt(text, k) = "}"})
      ends == {j \in braces : i < j /\ CharAt(text, j) = "}" /\ Opened(j) = Closed(j)}
  IN  IF i = 0 \/ ends = {} THEN Null
      ELSE Str(SubString(text, i, CHOOSE j \in ends : \A k \in ends : j <= k))

\* The reply has come, and its first balanced block is valid JSON.
FirstBlockParses ==
  /\ ~KeyUnset
  /\ ReplyText # Undefined
  /\ FirstBalancedBlock(ReplyText.val) # Null
  /\ JSONparse(FirstBalancedBlock(ReplyText.val).val).kind = "return"

\* C15: for every reply whose first balanced {...} block is valid JSON,
\* getAISuggestions returns the parsed content of that block, whatever text
\* follows it.
C15_FirstBalancedBlock ==
  (CalledAdapter /\ op = "getAISuggestions" /\ FirstBlockParses) =>
    ret = JSONparse(FirstBalancedBlock(ReplyText.val).val)

\* The same for the replies that hold no brace after their first block.
C15_NoBraceAfterBlock ==
  (CalledAdapter /\ op = "getAISuggestions" /\ FirstBlockParses
     /\ matchBraces(ReplyText.val) = FirstBalancedBlock(ReplyText.val)) =>
    ret = JSONparse(FirstBalancedBlock(ReplyText.val).val)

(***************************************************************************)
(* analyzeCard on cards that lack a title or a description.                *)
(***************************************************************************)
MissingTitles == {Undefined, Str("Refactor"), Str("Fix login bug")}

MissingDescriptions == {Undefined, Str(""), Str("testing needed")}

MissingCards ==
  [_id : {1}, title : MissingTitles, description : MissingDescriptions,
   list : {1}, dueDate : {Null}]

MissingBoardContents ==
  { [title |-> Str("Cleanup"),        description |-> Undefined],
    [title |-> Str("Fix login page"), description |-> Undefined] }

MissingBoards ==
  {CardsOf(cs) : cs \in UNION {[1..n -> MissingBoardContents] : n \in 0..MaxCards}}

InitMissing ==
  /\ ClockInit
  /\ ToCall("analyzeCard",
            [card : MissingCards, boardCards : MissingBoards,
             boardLists : AnalysisLists])

SpecMissing == InitMissing /\ [][Next]_vars

\* The text a card actually has: its title and description where defined.
ActualText(card) ==
  (IF card.title.type = "string" THEN card.title.val ELSE "")
    \o " " \o
  (IF card.description.type = "string" THEN card.description.val ELSE "")

ActualWords(card) == Range(extractWords(Str(ActualText(card))))

\* The card or a card of the board lacks a title or a description.
SomeTextMissing ==
  \/ args.card.title = Undefined
  \/ args.card.description = Undefined
  \/ \E i \in DOMAIN args.boardCards :
       args.boardCards[i].description = Undefined

\* C16: with an undefined title or description analyzeCard raises no error,
\* the undefined fields give no date suggestion and no list movement, they
\* contribute no token to a word set, and a related card shares an actual
\* word with the target card.
C16_MissingTextMatchesNothing ==
  (CalledAnalyze /\ SomeTextMissing) =>
    /\ DOMAIN ret \subseteq
         {"suggestedDueDates", "suggestedListMovement", "relatedCards", "smartTips"}
    /\ \A i \in DOMAIN ret.suggestedDueDates :
         LET s == ret.suggestedDueDates[i]
         IN  /\ s.source = "title" => args.card.title # Undefined
             /\ s.source = "description" => args.card.description # Undefined
    /\ ret.suggestedListMovement # Null =>
         TriggeredCategories(toLowerCase(ActualText(args.card))) # {}
    /\ \A t \in {args.card.title, args.card.description} :
         t = Undefined => extractWords(t) = <<>>
    /\ \A i \in DOMAIN ret.relatedCards :
         \E k \in DOMAIN args.boardCards :
           /\ args.boardCards[k]._id = ret.relatedCards[i].card._id
           /\ ActualWords(args.card) \cap ActualWords(args.boardCards[k]) # {}

\* The same without the last part: everything but the related cards.
C16_NoErrorNoDateNoMovement ==
  (CalledAnalyze /\ SomeTextMissing) =>
    /\ DOMAIN ret \subseteq
         {"suggestedDueDates", "suggestedListMovement", "relatedCards", "smartTips"}
    /\ \A i \in DOMAIN ret.suggestedDueDates :
         LET s == ret.suggestedDueDates[i]
         IN  /\ s.source = "title" => args.card.title # Undefined
             /\ s.source = "description" => args.card.description # Undefined
    /\ ret.suggestedListMovement # Null =>
         TriggeredCategories(toLowerCase(ActualText(args.card))) # {}
    /\ \A t \in {args.card.title, args.card.description} :
         t = Undefined => extractWords(t) = <<>>

(***************************************************************************)
(* The document store: the boards, lists and cards, each a sequence of     *)
(* documents.  An id is a positive number; the id 0 stands for a request   *)
(* parameter that is no ObjectId, which a query by id rejects with a       *)
(* CastError.  Users are known by their ids.                               *)
(***************************************************************************)
BoardDoc(id, title, owner, members) ==
  [_id |-> id, title |-> title, owner |-> owner, members |-> members,
   background |-> "#0079bf"]

ListDoc(id, title, board) == [_id |-> id, title |-> title, board |-> board]

CardDoc(id, content, list, board, position) ==
  [_id |-> id, title |-> content.title, description |-> content.description,
   list |-> list, board |-> board, position |-> position, dueDate |-> Null]

Member(user, role) == [user |-> user, role |-> role]

\* Board 1 belongs to user 1 and has the admin 3 and the plain member 2;
\* board 2 belongs to user 4 alone.
SeedStore ==
  [boards |-> << BoardDoc(1, "Product", 1,
                          <<Member(1, "admin"), Member(2, "member"), Member(3, "admin")>>),
                 BoardDoc(2, "Private", 4, <<Member(4, "admin")>>) >>,
   lists  |-> << ListDoc(1, "Backlog", 1), ListDoc(2, "Testing", 1),
                 ListDoc(3, "Todo", 2) >>,
   cards  |-> << CardDoc(1, [title |-> Str("Deploy to prod tomorrow"),
                             description |-> Str("testing needed")], 1, 1, 0),
                 CardDoc(2, [title |-> Str("Deploy docs to prod"),
                             description |-> Str("")], 1, 1, 1),
                 CardDoc(3, [title |-> Str("Fix login bug"),
                             description |-> Str("")], 3, 2, 0) >> ]

\* Model.findById(id): the document, null when there is none, a CastError
\* when the id is no ObjectId.
findById(collection, id) ==
  IF id = 0
  THEN Throw([type |-> "error", name |-> "CastError", kind |-> "ObjectId",
              message |-> Str("Cast to ObjectId failed")])
  ELSE LET at == {i \in DOMAIN collection : collection[i]._id = id}
       IN  IF at = {} THEN Return(Null)
           ELSE Return(collection[CHOOSE i \in at : TRUE])

\* Model.find({ field: value }): the documents in the order of the
\* collection.
findBy(collection, field, value) ==
  LET Matches(doc) == doc[field] = value
  IN  SelectSeq(collection, Matches)

\* checkBoardAccess of the card controller.
checkBoardAccess(boards, boardId, userId) ==
  LET found == findById(boards, boardId)
      board == found.value
  IN  IF found.kind = "throw" THEN found
      ELSE IF board = Null
        THEN Return([hasAccess |-> FALSE, error |-> "Board not found"])
      ELSE LET IsUser(member) == IdToString(member.user) = IdToString(userId)
               isMember == some(board.members, IsUser)
           IN  IF ~isMember /\ IdToString(board.owner) # IdToString(userId)
               THEN Return([hasAccess |-> FALSE,
                            error |-> "Not authorized to access this board"])
               ELSE Return([hasAccess |-> TRUE, board |-> board])

\* res.status(status).json(body)
Response(status, body) == [status |-> status, body |-> body]

Message(text) == [message |-> text]

\* The catch clause of the recommendation handlers.
catchNotFound(error, notFound) ==
  IF "kind" \in DOMAIN error /\ error.kind = "ObjectId"
  THEN Response(404, Message(notFound))
  ELSE Response(500, Message("Server error"))

(***************************************************************************)
(* getCardRecommendations (GET /api/cards/:id/recommendations).  Several   *)
(* requests are under way at once; a handler runs from one await to the    *)
(* next without interruption.  For the request r, args[r] holds the        *)
(* parameter id, the user, the service key of the process and the reply    *)
(* the generative-text service will give; pc[r] is the await the handler   *)
(* waits at, local[r] its local variables and ret[r] the response.         *)
(***************************************************************************)
Requests == {1, 2}

NoFrame ==
  [card |-> Null, boardCards |-> <<>>, boardLists |-> <<>>, analysis |-> Null,
   titleNow |-> Null, descriptionNow |-> Null]

\* The arguments of analyzeCard after the call, with the array methods
\* sorting the board's cards in place,
argumentsAfterSortInPlace(card, boardCards, boardLists) ==
  [card |-> card,
   boardCards |-> [i \in DOMAIN boardCards |-> boardCards[Len(boardCards) + 1 - i]],
   boardLists |-> boardLists]

\* and as the source leaves them: analyzeCard and the functions it calls
\* assign to no property of their arguments; filter, map and slice make new
\* arrays, sort is applied to the array that filter made, and the set*
\* methods to Date objects made in parseDateKeywords.
argumentsAfterAnalyze(card, boardCards, boardLists) ==
  [card |-> card, boardCards |-> boardCards, boardLists |-> boardLists]

\* The body of the response with the analysis left out when there are no
\* AI insights,
recommendationsBodyAiOnly(card, analysis, aiInsights) ==
  IF aiInsights = Null
  THEN [cardId |-> card._id, cardTitle |-> card.title, aiInsights |-> aiInsights]
  ELSE [f \in {"cardId", "cardTitle", "aiInsights"} \cup DOMAIN analysis |->
          IF f = "aiInsights" THEN aiInsights
          ELSE IF f \in DOMAIN analysis THEN analysis[f]
          ELSE IF f = "cardId" THEN card._id ELSE card.title]

\* and as the source builds it:
\* { cardId, cardTitle, ...ruleBasedRecommendations, aiInsights }
recommendationsBody(card, analysis, aiInsights) ==
  [f \in {"cardId", "cardTitle", "aiInsights"} \cup DOMAIN analysis |->
     IF f = "aiInsights" THEN aiInsights
     ELSE IF f \in DOMAIN analysis THEN analysis[f]
     ELSE IF f = "cardId" THEN card._id ELSE card.title]

\* The requests of the handler of r to the generative-text service.
RequestsOf(r, requests) ==
  [i \in DOMAIN requests |->
     [request |-> r, model |-> requests[i].model, contents |-> requests[i].contents]]

Respond(r, response) ==
  /\ ret' = [ret EXCEPT ![r] = response]
  /\ pc' = [pc EXCEPT ![r] = "done"]

\* const card = await Card.findById(req.params.id)
FindCard(r) ==
  /\ op = "getCardRecommendations" /\ pc[r] = "call"
  /\ LET found == findById(store.cards, args[r].id)
     IN  IF found.kind = "throw"
         THEN Respond(r, catchNotFound(found.value, "Card not found")) /\ UNCHANGED local
         ELSE IF found.value = Null
         THEN Respond(r, Response(404, Message("Card not found"))) /\ UNCHANGED local
         ELSE /\ pc' = [pc EXCEPT ![r] = "checkBoardAccess"]
              /\ local' = [local EXCEPT ![r].card = found.value]
              /\ UNCHANGED ret
  /\ UNCHANGED <<clock, op, args, store, service>>

\* await checkBoardAccess(card.board, req.user._id)
CheckBoardAccess(r) ==
  /\ op = "getCardRecommendations" /\ pc[r] = "checkBoardAccess"
  /\ LET access == checkBoardAccess(store.boards, local[r].card.board, args[r].user)
     IN  IF access.kind = "throw"
         THEN Respond(r, catchNotFound(access.value, "Card not found"))
         ELSE IF ~access.value.hasAccess
         THEN Respond(r, Response(403, Message(access.value.error)))
         ELSE pc' = [pc EXCEPT ![r] = "find"] /\ UNCHANGED ret
  /\ UNCHANGED <<clock, op, args, store, service, local>>

\* The two queries have answered: analyzeCard runs, and getCardInsights
\* runs up to its request to the service.
FindAndAnalyze(r) ==
  /\ op = "getCardRecommendations" /\ pc[r] = "find"
  /\ \E later \in LaterClocks(clock) :
       LET card == local[r].card
           boardCards == findBy(store.cards, "board", card.board)
           boardLists == findBy(store.lists, "board", card.board)
           analysis == analyzeCard(card, boardCards, boardLists, clock, later)
           after == argumentsAfterAnalyze(card, boardCards, boardLists)
           called == getCardInsights(after.card, after.boardCards, after.boardLists,
                                     args[r].key, args[r].reply)
       IN  /\ local' = [local EXCEPT ![r] =
                          [card |-> after.card, boardCards |-> after.boardCards,
                           boardLists |-> after.boardLists, analysis |-> analysis,
                           titleNow |-> clock, descriptionNow |-> later]]
           /\ service' = service \o RequestsOf(r, called.requests)
           /\ clock' = later
  /\ pc' = [pc EXCEPT ![r] = "getCardInsights"]
  /\ UNCHANGED <<op, args, ret, store>>

\* aiInsights after try { aiInsights = await getCardInsights(...) } catch
aiInsightsOf(completion) ==
  IF completion.kind = "throw" THEN Null ELSE completion.value

\* getCardInsights has its reply: the response is sent.
RespondWithInsights(r) ==
  /\ op = "getCardRecommendations" /\ pc[r] = "getCardInsights"
  /\ Respond(r, Response(200, recommendationsBody(
         local[r].card, local[r].analysis,
         aiInsightsOf(getCardInsights(local[r].card, local[r].boardCards,
                                      local[r].boardLists, args[r].key,
                                      args[r].reply).completion))))
  /\ UNCHANGED <<clock, op, args, store, service, local>>

RequestIds == {0, 1, 3, 9}

RequestUsers == {1, 4}

RequestKeys == {Undefined, Str("AIza-key")}

RequestReplies ==
  { Return([text |-> Str("Sure: {\"insights\": {\"priority\": \"high\"}}")]),
    Return([text |-> Str("Sorry, no idea")]),
    Throw(Error("ApiError", Str("API key not valid"))) }

InitRequests ==
  /\ ClockInit
  /\ op = "getCardRecommendations"
  /\ pc = [r \in Requests |-> "call"]
  /\ ret = [r \in Requests |-> Null]
  /\ local = [r \in Requests |-> NoFrame]
  /\ store = SeedStore
  /\ service = NoService
  /\ \E key \in RequestKeys :
       args \in [Requests -> [id : RequestIds, user : RequestUsers,
                              key : {key}, reply : RequestReplies]]

NextRequests ==
  \E r \in Requests :
    \/ FindCard(r)
    \/ CheckBoardAccess(r)
    \/ FindAndAnalyze(r)
    \/ RespondWithInsights(r)

SpecRequests == InitRequests /\ [][NextRequests]_vars

\* The handler of r has computed its analysis / has sent its response
\* after it.
Analyzed(r) == local[r].analysis # Null

Answered(r) == pc[r] = "done" /\ Analyzed(r)

\* The analysis of the card of r, run alone on the documents of the store
\* at the moments the handler of r read the clock.
AnalysisAlone(r) ==
  LET card == findById(store.cards, args[r].id).value
  IN  analyzeCard(card, findBy(store.cards, "board", card.board),
                  findBy(store.lists, "board", card.board),
                  local[r].titleNow, local[r].descriptionNow)

DeterministicFields ==
  {"suggestedDueDates", "suggestedListMovement", "relatedCards", "smartTips"}

DeterministicPart(body) ==
  [f \in DOMAIN body \cap DeterministicFields |-> body[f]]

\* The adapter fails for r: no key, a failed call, or a reply without a
\* parseable block.
AdapterFails(r) ==
  \/ IsFalsy(args[r].key) \/ args[r].key = Str("undefined")
  \/ args[r].reply.kind = "throw"
  \/ args[r].reply.value.text.type # "string"
  \/ ~HasBlock(args[r].reply.value.text.val)
  \/ JSONparse(matchBraces(args[r].reply.value.text.val).val).kind = "throw"

SameAnalysisInputs(r, q) ==
  /\ args[r].id = args[q].id
  /\ local[r].titleNow = local[q].titleNow
  /\ local[r].descriptionNow = local[q].descriptionNow

\* C13: the outcome of the AI adapter does not affect the deterministic
\* part of the response of getCardRecommendations: the request succeeds,
\* the fields suggestedDueDates, suggestedListMovement, relatedCards and
\* smartTips are those of the analysis whether the adapter succeeds or
\* fails, and aiInsights is null when the adapter fails.
C13_AdapterLeavesAnalysisAlone ==
  \A r \in Requests :
    Answered(r) =>
      /\ ret[r].status = 200
      /\ DeterministicPart(ret[r].body) = AnalysisAlone(r)
      /\ "aiInsights" \in DOMAIN ret[r].body
      /\ AdapterFails(r) => ret[r].body.aiInsights = Null
      /\ \A q \in Requests :
           (Answered(q) /\ SameAnalysisInputs(r, q)) =>
             DeterministicPart(ret[r].body) = DeterministicPart(ret[q].body)

\* Two requests for the same card at the same moment, one with a failed
\* call and one with insights, have got the same suggestions.
C13_Witness ==
  \E r, q \in Requests :
    /\ Answered(r) /\ Answered(q)
    /\ SameAnalysisInputs(r, q)
    /\ args[r].reply.kind = "throw" /\ ~IsFalsy(args[r].key)
    /\ ret[r].body.aiInsights = Null
    /\ ret[q].body.aiInsights # Null
    /\ ret[r].status = 200
    /\ ret[r].body.suggestedDueDates # <<>>
    /\ DeterministicPart(ret[r].body) = DeterministicPart(ret[q].body)

\* The requests made to the service for the request r.
ServiceRequestsFor(r) == {i \in DOMAIN service : service[i].request = r}

boardControllerScope ==
  {"Board", "User", "Invite", "Card", "List", "crypto",
   "createBoard", "getUserBoards", "getBoard", "updateBoard", "deleteBoard",
   "getCardRecommendationsInBoard", "addMember", "inviteUser", "acceptInvite",
   "getBoardInvites"}

\* The handler from the answer of checkBoardAccess on.
recommendationsInBoard(st, boardId, cardId, access, titleNow, descriptionNow) ==
  IF access.kind = "throw" THEN catchNotFound(access.value, "Card or board not found")
  ELSE IF ~access.value.hasAccess
    THEN Response(IF access.value.error = "Board not found" THEN 404 ELSE 403,
                  Message(access.value.error))
  ELSE LET found == findById(st.cards, cardId)
           card == found.value
       IN  IF found.kind = "throw"
             THEN catchNotFound(found.value, "Card or board not found")
           ELSE IF card = Null THEN Response(404, Message("Card not found"))
           ELSE IF IdToString(card.board) # IdToString(boardId)
             THEN Response(400, Message("Card does not belong to this board"))
           ELSE Response(200,
                  [boardId |-> boardId, cardId |-> card._id, cardTitle |-> card.title,
                   recommendations |->
                     analyzeCard(card, findBy(st.cards, "board", boardId),
                                 findBy(st.lists, "board", boardId),
                                 titleNow, descriptionNow)])

getCardRecommendationsInBoard(st, boardId, cardId, user, titleNow, descriptionNow) ==
  IF "checkBoardAccess" \notin boardControllerScope
  THEN catchNotFound(Error("ReferenceError", Str("checkBoardAccess is not defined")),
                     "Card or board not found")
  ELSE recommendationsInBoard(st, boardId, cardId,
                              checkBoardAccess(st.boards, boardId, user),
                              titleNow, descriptionNow)

GetCardRecommendationsInBoard ==
  /\ pc = "call" /\ op = "getCardRecommendationsInBoard"
  /\ \E later \in LaterClocks(clock) :
       LET response == getCardRecommendationsInBoard(store, args.id, args.cardId,
                                                      args.user, clock, later)
       IN  /\ ret' = response
           /\ clock' = IF response.status = 200 THEN later ELSE clock
           /\ args' = [id |-> args.id, cardId |-> args.cardId, user |-> args.user,
                       titleNow |-> clock, descriptionNow |-> clock']
  /\ pc' = "done"
  /\ UNCHANGED <<op, store, service, local>>

InBoardIds == {0, 1, 2, 9}

InBoardCardIds == {0, 1, 2, 3, 9}

InBoardUsers == {1, 2, 3, 4}

InitInBoard ==
  /\ ClockInit
  /\ pc = "call" /\ op = "getCardRecommendationsInBoard" /\ ret = Null
  /\ args \in [id : InBoardIds, cardId : InBoardCardIds, user : InBoardUsers]
  /\ store = SeedStore /\ service = NoService /\ local = NoLocal

NextInBoard == Tick \/ GetCardRecommendationsInBoard

SpecInBoard == InitInBoard /\ [][NextInBoard]_vars

\* The board and the card the request names, Null when the store has none.
NamedBoard == findById(store.boards, args.id).value

NamedCard == findById(store.cards, args.cardId).value

\* The user of the request is the owner or a member of the board.
OwnerOrMember(board, user) ==
  \/ board.owner = user
  \/ \E i \in DOMAIN board.members : board.members[i].user = user

\* C18: getCardRecommendationsInBoard answers 404 when the board does not
\* exist, 403 when the requester is neither owner nor member, 404 when the
\* card does not exist, 400 when the card belongs to another board, and
\* otherwise succeeds with the analysis of the card under the key
\* recommendations.
C18_StatusOfRecommendationsInBoard ==
  (pc = "done" /\ op = "getCardRecommendationsInBoard"
     /\ args.id # 0 /\ args.cardId # 0) =>
    IF NamedBoard = Null THEN ret.status = 404
    ELSE IF ~OwnerOrMember(NamedBoard, args.user) THEN ret.status = 403
    ELSE IF NamedCard = Null THEN ret.status = 404
    ELSE IF NamedCard.board # args.id THEN ret.status = 400
    ELSE /\ ret.status = 200
         /\ ret.body.recommendations =
              analyzeCard(NamedCard, findBy(store.cards, "board", args.id),
                          findBy(store.lists, "board", args.id),
                          args.titleNow, args.descriptionNow)

\* What the handler does: every request is answered 500.
C18_AlwaysServerError ==
  (pc = "done" /\ op = "getCardRecommendationsInBoard") =>
    ret = Response(500, Message("Server error"))

(***************************************************************************)
(* reorderCards (PUT /api/cards/reorder) of the card controller.  The      *)
(* body of the request names a list and gives an array of card ids with    *)
(* their new positions.  The updates are started together and take effect  *)
(* in any order; Promise.all rejects when one of them does, the others     *)
(* taking effect all the same.                                             *)
(***************************************************************************)
MaxCardOrders == 2

\* Card.findByIdAndUpdate(cardId, { position }): the collection afterwards.
findByIdAndUpdate(cards, cardId, position) ==
  [i \in DOMAIN cards |->
     IF cards[i]._id = cardId THEN [cards[i] EXCEPT !.position = position]
     ELSE cards[i]]

\* The updates of cardOrders applied in the order the sequence order gives.
RECURSIVE updatePositions(_, _, _)
updatePositions(cards, cardOrders, order) ==
  IF order = <<>> THEN cards
  ELSE LET cardOrder == cardOrders[Head(order)]
       IN  updatePositions(
             IF cardOrder.cardId = 0 THEN cards
             ELSE findByIdAndUpdate(cards, cardOrder.cardId, cardOrder.position),
             cardOrders, Tail(order))

\* The orders n updates started together can take effect in.
CompletionOrders(n) ==
  {order \in [1..n -> 1..n] : \A i, j \in 1..n : order[i] = order[j] => i = j}

\* The ways .sort({ position: 1 }) can give the documents found.
sortByPosition(found) ==
  {sorted \in [DOMAIN found -> Range(found)] :
     /\ \A doc \in Range(found) : \E i \in DOMAIN sorted : sorted[i] = doc
     /\ \A i, j \in DOMAIN sorted : i < j => sorted[i].position <= sorted[j].position}

\* The request body is usable: listId is given and cardOrders is an array.
reorderBodyGiven(body) ==
  /\ "listId" \in DOMAIN body
  /\ "cardOrders" \in DOMAIN body
  /\ body.cardOrders.type = "array"

\* The handler from the list found on: the cards afterwards and the
\* responses it can give.
reorderInList(st, found, listId, cardOrders, user, order) ==
  LET list == found.value
      access == IF found.kind = "throw" \/ list = Null THEN found
                ELSE checkBoardAccess(st.boards, list.board, user)
      updated == updatePositions(st.cards, cardOrders.elements, order)
  IN  IF found.kind = "throw"
        THEN [cards |-> st.cards, responses |-> {Response(500, Message("Server error"))}]
      ELSE IF list = Null
        THEN [cards |-> st.cards, responses |-> {Response(404, Message("List not found"))}]
      ELSE IF access.kind = "throw"
        THEN [cards |-> st.cards, responses |-> {Response(500, Message("Server error"))}]
      ELSE IF ~access.value.hasAccess
        THEN [cards |-> st.cards,
              responses |-> {Response(403, Message(access.value.error))}]
      ELSE IF \E i \in DOMAIN cardOrders.elements : cardOrders.elements[i].cardId = 0
        THEN [cards |-> updated, responses |-> {Response(500, Message("Server error"))}]
      ELSE [cards |-> updated,
            responses |-> {Response(200, sorted) :
                             sorted \in sortByPosition(findBy(updated, "list", listId))}]

reorderCards(st, body, user, order) ==
  IF ~reorderBodyGiven(body)
  THEN [cards |-> st.cards,
        responses |-> {Response(400, Message("Please provide listId and cardOrders array"))}]
  ELSE reorderInList(st, findById(st.lists, body.listId), body.listId, body.cardOrders,
                     user, order)

ReorderCards ==
  /\ pc = "call" /\ op = "reorderCards"
  /\ \E order \in CompletionOrders(IF reorderBodyGiven(args.body)
                                   THEN Len(args.body.cardOrders.elements) ELSE 0) :
       LET outcome == reorderCards(store, args.body, args.user, order)
       IN  /\ store' = [store EXCEPT !.cards = outcome.cards]
           /\ ret' \in outcome.responses
  /\ pc' = "done"
  /\ local' = [before |-> store]
  /\ UNCHANGED <<clock, op, args, service>>

\* The requests: a listId that is no ObjectId, the lists 1 and 3 and a list
\* that does not exist, or no listId; the users 1 (owner of board 1), 2
\* (member of board 1), 4 (owner of board 2) and 5 (of no board).
ReorderListIds == {0, 1, 3, 9}

ReorderUsers == {1, 2, 4, 5}

ReorderCardIds == {0, 1, 2, 3}

ReorderPositions == {0, 5}

ReorderCardOrders ==
  {Str("1,2")} \cup
  {Arr(elements) :
     elements \in UNION {[1..n -> [cardId : ReorderCardIds, position : ReorderPositions]] :
                           n \in 0..MaxCardOrders}}

ReorderBodies ==
  [listId : ReorderListIds, cardOrders : ReorderCardOrders]
    \cup [listId : ReorderListIds] \cup [cardOrders : {Arr(<<>>)}]

InitReorder ==
  /\ ClockInit
  /\ pc = "call" /\ op = "reorderCards" /\ ret = Null
  /\ args \in [body : ReorderBodies, user : ReorderUsers]
  /\ store = SeedStore /\ service = NoService /\ local = NoLocal

NextReorder == ReorderCards

SpecReorder == InitReorder /\ [][NextReorder]_vars

CalledReorder == pc = "done" /\ op = "reorderCards"

\* The cards changed by the call.
Reordered == {i \in DOMAIN store.cards : store.cards[i] # local.before.cards[i]}

\* C19: after a call of reorderCards the position of every card that does
\* not belong to the list named by listId is what it was before the call,
\* whatever card ids cardOrders names.
C19_OnlyCardsOfTheList ==
  CalledReorder =>
    \A i \in DOMAIN store.cards :
      ("listId" \notin DOMAIN args.body \/ local.before.cards[i].list # args.body.listId) =>
        store.cards[i].position = local.before.cards[i].position

\* What the handler keeps: a card changes in its position alone, only when
\* cardOrders names it, and only when the requester has access to the board
\* of the list named by listId.
C19_OnlyCardsNamed ==
  CalledReorder =>
    \A i \in Reordered :
        /\ store.cards[i] = [local.before.cards[i] EXCEPT !.position = store.cards[i].position]
        /\ \E k \in DOMAIN args.body.cardOrders.elements :
             /\ args.body.cardOrders.elements[k].cardId = store.cards[i]._id
             /\ args.body.cardOrders.elements[k].position = store.cards[i].position
        /\ ret.status \in {200, 500}
        /\ \E l \in DOMAIN store.lists :
             /\ store.lists[l]._id = args.body.listId
             /\ checkBoardAccess(store.boards, store.lists[l].board, args.user).value.hasAccess

\* A request of the owner of board 1 for list 1 has moved the card of
\* board 2.
C19_ForeignCardMoved ==
  /\ CalledReorder /\ args.body.listId = 1 /\ args.user = 1 /\ ret.status = 200
  /\ store.cards[3].board = 2
  /\ store.cards[3].position # local.before.cards[3].position

(***************************************************************************)
(* The handlers of the board controller that change a board or show its    *)
(* invitations: updateBoard, deleteBoard, addMember, inviteUser and        *)
(* getBoardInvites.  The store holds the invitations next to the boards;   *)
(* the users are not changed by these handlers.  Requests follow one       *)
(* another, up to MaxBoardCalls of them; local.before is the store before  *)
(* the last request, op, args and ret are the last request and its         *)
(* response.                                                               *)
(***************************************************************************)
MaxBoardCalls == 2

UserDoc(id, email) == [_id |-> id, email |-> email]

UserDocs ==
  << UserDoc(1, "ann@x.io"), UserDoc(2, "bob@x.io"), UserDoc(3, "cat@x.io"),
     UserDoc(4, "dan@x.io"), UserDoc(5, "eve@x.io") >>

SeedBoards ==
  [boards |-> SeedStore.boards, lists |-> SeedStore.lists, cards |-> SeedStore.cards,
   invites |-> <<>>]

\* String.prototype.trim for blanks, as the schema option trim applies it.
RECURSIVE trim(_)
trim(s) ==
  IF s = "" THEN ""
  ELSE IF CharAt(s, 1) = " " THEN trim(SubString(s, 2, Len(s)))
  ELSE IF CharAt(s, Len(s)) = " " THEN trim(SubString(s, 1, Len(s) - 1))
  ELSE s

\* The roles of the schemas' enum.
roleEnum == {"admin", "member"}

\* role || 'member'
roleOrMember(role) == IF IsFalsyValue(role) THEN "member" ELSE role.val

\* The collection with the document of the same _id replaced: doc.save().
save(collection, doc) ==
  [i \in DOMAIN collection |-> IF collection[i]._id = doc._id THEN doc ELSE collection[i]]

\* doc.deleteOne()
deleteOne(collection, doc) ==
  LET Others(other) == other._id # doc._id
  IN  SelectSeq(collection, Others)

\* The response of the catch clauses.
serverError == Response(500, Message("Server error"))

\* The requester may manage the board: the owner, or the member entry found
\* for the requester has the role admin.
ownerOrAnyMember(board, userId) ==
  LET IsUser(m) == IdToString(m.user) = IdToString(userId)
  IN  IdToString(board.owner) = IdToString(userId) \/ some(board.members, IsUser)

ownerOrAdmin(board, userId) ==
  LET IsUser(m) == IdToString(m.user) = IdToString(userId)
      member == find(board.members, IsUser)
  IN  ~(/\ IdToString(board.owner) # IdToString(userId)
        /\ (member = Undefined \/ member.role # "admin"))

\* What a handler leaves: the store and the response.
Outcome(st, response) == [store |-> st, response |-> response]

\* updateBoard from the board found on.
updateFound(st, board, body) ==
  LET titled == IF IsFalsyValue(body.title) THEN board
                ELSE [board EXCEPT !.title = trim(body.title.val)]
      updated == IF IsFalsyValue(body.background) THEN titled
                 ELSE [titled EXCEPT !.background = body.background.val]
  IN  IF updated.title = "" THEN Outcome(st, serverError)
      ELSE Outcome([st EXCEPT !.boards = save(st.boards, updated)],
                   Response(200, updated))

updateBoard(st, id, body, user) ==
  LET found == findById(st.boards, id)
  IN  IF found.kind = "throw" THEN Outcome(st, serverError)
      ELSE IF found.value = Null THEN Outcome(st, Response(404, Message("Board not found")))
      ELSE IF ~ownerOrAdmin(found.value, user._id)
        THEN Outcome(st, Response(403, Message("Not authorized to update this board")))
      ELSE updateFound(st, found.value, body)

deleteBoard(st, id, user) ==
  LET found == findById(st.boards, id)
  IN  IF found.kind = "throw" THEN Outcome(st, serverError)
      ELSE IF found.value = Null THEN Outcome(st, Response(404, Message("Board not found")))
      ELSE IF IdToString(found.value.owner) # IdToString(user._id)
        THEN Outcome(st, Response(403, Message("Not authorized to delete this board")))
      ELSE Outcome([st EXCEPT !.boards = deleteOne(st.boards, found.value)],
                   Response(200, Message("Board removed")))

\* board.members.push({ user, role })
pushMember(board, userId, role) ==
  [board EXCEPT !.members = Append(board.members, Member(userId, role))]

\* board.save() after the push and the response with the body given: the
\* role pushed has to be one of the enum.
saveMember(st, joined, body) ==
  IF joined.members[Len(joined.members)].role \notin roleEnum
  THEN Outcome(st, serverError)
  ELSE Outcome([st EXCEPT !.boards = save(st.boards, joined)], Response(200, body))

addMember(st, id, body, user) ==
  LET found == findById(st.boards, id)
      board == found.value
      IsInvited(m) == IdToString(m.user) = IdToString(body.userId)
      joined == pushMember(board, body.userId, roleOrMember(body.role))
  IN  IF found.kind = "throw" THEN Outcome(st, serverError)
      ELSE IF board = Null THEN Outcome(st, Response(404, Message("Board not found")))
      ELSE IF ~ownerOrAdmin(board, user._id)
        THEN Outcome(st, Response(403, Message("Not authorized to add members")))
      ELSE IF find(board.members, IsInvited) # Undefined
        THEN Outcome(st, Response(400, Message("User is already a member")))
      ELSE saveMember(st, joined, joined)

\* The part of an invitation the responses show.
inviteShown(invite) ==
  [email |-> invite.email, token |-> invite.token, expiresAt |-> invite.expiresAt]

\* inviteUser for an address no user has: a pending invitation is made
\* unless there is one; the token is unique among the invitations.
inviteByMail(st, board, email, role, user, token, now) ==
  LET IsPending(i) == i.email = email /\ i.board = board._id /\ i.status = "pending"
      existingInvite == find(st.invites, IsPending)
      HasToken(i) == i.token = token
      invite == [board |-> board._id, email |-> trim(email), invitedBy |-> user._id,
                 token |-> token, role |-> role, status |-> "pending",
                 expiresAt |-> MakeDate(now.day + 7, now.ms)]
  IN  IF existingInvite # Undefined
        THEN Outcome(st, Response(400,
               [message |-> "An invitation has already been sent to this email",
                invite |-> inviteShown(existingInvite)]))
      ELSE IF role \notin roleEnum \/ some(st.invites, HasToken)
        THEN Outcome(st, serverError)
      ELSE Outcome([st EXCEPT !.invites = Append(st.invites, invite)],
                   Response(201,
                     [message |-> "Invitation created successfully. User will be added when they register.",
                      invite |-> inviteShown(invite)]))

\* inviteUser from the board found on, for a requester who may manage it.
inviteToBoard(st, board, email, role, user, token, now) ==
  LET HasMail(u) == u.email = email
      invitedUser == find(UserDocs, HasMail)
      IsInvited(m) == IdToString(m.user) = IdToString(invitedUser._id)
      joined == pushMember(board, invitedUser._id, role)
  IN  IF email = toLowerCase(user.email)
        THEN Outcome(st, Response(400, Message("You cannot invite yourself")))
      ELSE IF invitedUser = Undefined
        THEN inviteByMail(st, board, email, role, user, token, now)
      ELSE IF find(board.members, IsInvited) # Undefined
        THEN Outcome(st, Response(400, Message("User is already a member of this board")))
      ELSE saveMember(st, joined,
                      [message |-> "User added to board successfully", board |-> joined])

inviteUser(st, id, body, user, token, now) ==
  LET found == findById(st.boards, id)
      board == found.value
  IN  IF IsFalsyValue(body.email)
        THEN Outcome(st, Response(400, Message("Please provide an email address")))
      ELSE IF found.kind = "throw" THEN Outcome(st, serverError)
      ELSE IF board = Null THEN Outcome(st, Response(404, Message("Board not found")))
      ELSE IF ~ownerOrAdmin(board, user._id)
        THEN Outcome(st, Response(403, Message("Not authorized to invite members")))
      ELSE inviteToBoard(st, board, toLowerCase(body.email.val), roleOrMember(body.role),
                         user, token, now)

\* The documents found last made first: .sort({ createdAt: -1 }).
lastFirst(found) == [i \in DOMAIN found |-> found[Len(found) + 1 - i]]

getBoardInvites(st, id, user) ==
  LET found == findById(st.boards, id)
      board == found.value
      IsPending(i) == i.board = board._id /\ i.status = "pending"
  IN  IF found.kind = "throw" THEN Outcome(st, serverError)
      ELSE IF board = Null THEN Outcome(st, Response(404, Message("Board not found")))
      ELSE IF ~ownerOrAdmin(board, user._id)
        THEN Outcome(st, Response(403, Message("Not authorized to view invites")))
      ELSE Outcome(st, Response(200, lastFirst(SelectSeq(st.invites, IsPending))))

\* The requests: a board id that is no ObjectId, the boards 1 and 2 and a
\* board that does not exist; the requester is any of the users.
BoardIds == {0, 1, 2, 9}

BoardTitles == {Undefined, Str("Roadmap"), Str(" ")}

BoardBackgrounds == {Undefined, Str("#ffffff")}

NewMembers == {2, 5}

BodyRoles == {Undefined, Str("admin"), Str("guest")}

BodyEmails == {Undefined, Str("ann@x.io"), Str("Eve@X.io"), Str("new@x.io")}

Tokens == {"5f1c", "a09e"}

\* A request handled: its response, the store it leaves and the store
\* before it.
Handled(name, request, outcome) ==
  /\ pc = "call" /\ op \in {"boardController", "updateBoard", "deleteBoard",
                            "addMember", "inviteUser", "getBoardInvites"}
  /\ local.calls < MaxBoardCalls
  /\ op' = name
  /\ args' = request
  /\ ret' = outcome.response
  /\ store' = outcome.store
  /\ local' = [before |-> store, calls |-> local.calls + 1]
  /\ UNCHANGED <<clock, pc, service>>

UpdateBoard ==
  \E id \in BoardIds, u \in DOMAIN UserDocs :
    \E body \in [title : BoardTitles, background : BoardBackgrounds] :
      Handled("updateBoard", [id |-> id, user |-> UserDocs[u]._id, body |-> body],
              updateBoard(store, id, body, UserDocs[u]))

DeleteBoard ==
  \E id \in BoardIds, u \in DOMAIN UserDocs :
    Handled("deleteBoard", [id |-> id, user |-> UserDocs[u]._id, body |-> <<>>],
            deleteBoard(store, id, UserDocs[u]))

AddMember ==
  \E id \in BoardIds, u \in DOMAIN UserDocs :
    \E body \in [userId : NewMembers, role : BodyRoles] :
      Handled("addMember", [id |-> id, user |-> UserDocs[u]._id, body |-> body],
              addMember(store, id, body, UserDocs[u]))

InviteUser ==
  \E id \in BoardIds, u \in DOMAIN UserDocs, token \in Tokens :
    \E body \in [email : BodyEmails, role : BodyRoles] :
      Handled("inviteUser", [id |-> id, user |-> UserDocs[u]._id, body |-> body],
              inviteUser(store, id, body, UserDocs[u], token, clock))

GetBoardInvites ==
  \E id \in BoardIds, u \in DOMAIN UserDocs :
    Handled("getBoardInvites", [id |-> id, user |-> UserDocs[u]._id, body |-> <<>>],
            getBoardInvites(store, id, UserDocs[u]))

InitBoards ==
  /\ ClockInit
  /\ pc = "call" /\ op = "boardController" /\ args = <<>> /\ ret = Null
  /\ store = SeedBoards /\ service = NoService
  /\ local = [before |-> SeedBoards, calls |-> 0]

NextBoards == UpdateBoard \/ DeleteBoard \/ AddMember \/ InviteUser \/ GetBoardInvites

SpecBoards == InitBoards /\ [][NextBoards]_vars

\* A request to the board controller has been handled.
BoardCalled ==
  op \in {"updateBoard", "deleteBoard", "addMember", "inviteUser", "getBoardInvites"}

\* The board the last request names as it was before the request, or Null.
BoardBefore ==
  IF args.id = 0 THEN Null ELSE findById(local.before.boards, args.id).value

IsOwnerOf(board, user) == board.owner = user

IsAdminOf(board, user) ==
  \E i \in DOMAIN board.members :
    board.members[i].user = user /\ board.members[i].role = "admin"

\* The requester of the last request had the role the operation asks for.
HadTheRole ==
  /\ BoardBefore # Null
  /\ \/ IsOwnerOf(BoardBefore, args.user)
     \/ op # "deleteBoard" /\ IsAdminOf(BoardBefore, args.user)

Succeeded == ret.status \in {200, 201}

\* C20 as stated: the operations succeed only for the owner or an admin
\* (deleteBoard for the owner only), and a plain member or a non-member of
\* the board leaves the boards as they were and gets 403.
C20_AsStated ==
  BoardCalled =>
    /\ Succeeded => HadTheRole
    /\ (BoardBefore # Null /\ ~HadTheRole) =>
         /\ store.boards = local.before.boards
         /\ ret.status = 403

\* C20: after any sequence of the operations, they succeed only for the
\* owner or an admin of the board (deleteBoard for the owner only); a plain
\* member or a non-member of the board leaves the boards as they were, and
\* gets 403 unless the request is an inviteUser without an email address,
\* which is answered 400 before the board is looked up.
C20_RoleRestricted ==
  BoardCalled =>
    /\ Succeeded => HadTheRole
    /\ (BoardBefore # Null /\ ~HadTheRole) =>
         /\ store.boards = local.before.boards
         /\ ret.status = IF op = "inviteUser" /\ IsFalsyValue(args.body.email)
                         THEN 400 ELSE 403

\* A user made a plain member of the board by the request before asks for a
\* change of the board and is refused.
C20_Witness ==
  /\ BoardCalled /\ local.calls = 2
  /\ op \in {"updateBoard", "addMember"}
  /\ BoardBefore # Null /\ ~HadTheRole
  /\ \E i \in DOMAIN BoardBefore.members :
       /\ BoardBefore.members[i].user = args.user
       /\ BoardBefore.members[i].role = "member"
  /\ ~ownerOrAnyMember(findById(SeedBoards.boards, args.id).value, args.user)
  /\ ret.status = 403

(***************************************************************************)
(* addMember, inviteUser and acceptInvite with requests under way at once. *)
(* A handler runs from one await to the next without interruption; the     *)
(* other handlers run in between.  For the request r, args[r] holds the    *)
(* handler asked for with its parameters, body and user; pc[r] is the      *)
(* await the handler waits at, local[r] the documents it has loaded and    *)
(* changed and the response it is about to give, ret[r] the response.      *)
(* A document loaded is a copy: save() of a board after members.push       *)
(* appends the pushed member to the stored array, save() of an invite      *)
(* sets the status of the stored invite.                                   *)
(***************************************************************************)
InviteDoc(board, email, invitedBy, token, role, status, expiresAt) ==
  [board |-> board, email |-> email, invitedBy |-> invitedBy, token |-> token,
   role |-> role, status |-> status, expiresAt |-> expiresAt]

\* The store with two invitations made before the users they are for had
\* registered: one for user 5 that expires at noon of the first day, one
\* for user 2, who has been made a member of the board since.
SeedInvites ==
  [boards |-> SeedStore.boards, lists |-> SeedStore.lists, cards |-> SeedStore.cards,
   invites |-> << InviteDoc(1, "eve@x.io", 1, "c3d4", "member", "pending",
                            MakeDate(StartDay, MsPerDay \div 2)),
                  InviteDoc(1, "bob@x.io", 3, "e7f8", "admin", "pending",
                            MakeDate(StartDay + 7, 0)) >>]

\* a < b for two dates.
dateBefore(a, b) == a.day < b.day \/ (a.day = b.day /\ a.ms < b.ms)

\* The local variables of a handler: invite, board, the date it has read
\* and what it will answer after the save it waits for.
NoBoardFrame == [invite |-> Undefined, board |-> Null, now |-> Null, response |-> Null]

\* save() of a board after members.push: the member pushed last is appended
\* to the array stored.
savePushed(boards, board) ==
  [i \in DOMAIN boards |->
     IF boards[i]._id = board._id
     THEN [boards[i] EXCEPT !.members =
             Append(boards[i].members, board.members[Len(board.members)])]
     ELSE boards[i]]

\* save() of an invite after its status was set.
saveStatus(invites, invite) ==
  [i \in DOMAIN invites |->
     IF invites[i].token = invite.token
     THEN [invites[i] EXCEPT !.status = invite.status]
     ELSE invites[i]]

Handles(r, handler, at) ==
  op = "boardRequests" /\ args[r].handler = handler /\ pc[r] = at

\* The handler of r goes on to the next await.
Await(r, at, frame) ==
  /\ pc' = [pc EXCEPT ![r] = at]
  /\ local' = [local EXCEPT ![r] = frame]
  /\ UNCHANGED ret

\* The handler of r waits for board.save() and will answer response.
AwaitSaveBoard(r, joined, response) ==
  Await(r, "saveBoard", [local[r] EXCEPT !.board = joined, !.response = response])

\* const board = await Board.findById(req.params.id) of addMember, and the
\* handler up to board.save().
AddMemberFindBoard(r) ==
  /\ Handles(r, "addMember", "call")
  /\ LET found == findById(store.boards, args[r].id)
         board == found.value
         IsInvited(m) == IdToString(m.user) = IdToString(args[r].body.userId)
         joined == pushMember(board, args[r].body.userId, roleOrMember(args[r].body.role))
     IN  IF found.kind = "throw" THEN Respond(r, serverError) /\ UNCHANGED local
         ELSE IF board = Null
           THEN Respond(r, Response(404, Message("Board not found"))) /\ UNCHANGED local
         ELSE IF ~ownerOrAdmin(board, args[r].user._id)
           THEN Respond(r, Response(403, Message("Not authorized to add members")))
                /\ UNCHANGED local
         ELSE IF find(board.members, IsInvited) # Undefined
           THEN Respond(r, Response(400, Message("User is already a member")))
                /\ UNCHANGED local
         ELSE AwaitSaveBoard(r, joined, Response(200, joined))
  /\ UNCHANGED <<clock, op, args, store, service>>

\* await board.save() of the three handlers: the role pushed has to be one
\* of the enum and the board has to be there still.
SaveBoard(r) ==
  /\ op = "boardRequests" /\ pc[r] = "saveBoard"
  /\ LET joined == local[r].board
     IN  IF \/ joined.members[Len(joined.members)].role \notin roleEnum
            \/ findById(store.boards, joined._id).value = Null
         THEN Respond(r, serverError) /\ UNCHANGED <<store, local>>
         ELSE /\ store' = [store EXCEPT !.boards = savePushed(store.boards, joined)]
              /\ IF args[r].handler = "acceptInvite"
                 THEN Await(r, "saveInvite",
                            [local[r] EXCEPT !.invite.status = "accepted"])
                 ELSE Respond(r, local[r].response) /\ UNCHANGED local
  /\ UNCHANGED <<clock, op, args, service>>

\* const board = await Board.findById(req.params.id) of inviteUser, with
\* the check of the body before it and the checks of the requester after.
InviteFindBoard(r) ==
  /\ Handles(r, "inviteUser", "call")
  /\ LET found == findById(store.boards, args[r].id)
         board == found.value
     IN  IF IsFalsyValue(args[r].body.email)
           THEN Respond(r, Response(400, Message("Please provide an email address")))
                /\ UNCHANGED local
         ELSE IF found.kind = "throw" THEN Respond(r, serverError) /\ UNCHANGED local
         ELSE IF board = Null
           THEN Respond(r, Response(404, Message("Board not found"))) /\ UNCHANGED local
         ELSE IF ~ownerOrAdmin(board, args[r].user._id)
           THEN Respond(r, Response(403, Message("Not authorized to invite members")))
                /\ UNCHANGED local
         ELSE IF toLowerCase(args[r].body.email.val) = toLowerCase(args[r].user.email)
           THEN Respond(r, Response(400, Message("You cannot invite yourself")))
                /\ UNCHANGED local
         ELSE Await(r, "findUser", [local[r] EXCEPT !.board = board])
  /\ UNCHANGED <<clock, op, args, store, service>>

\* const invitedUser = await User.findOne({ email }) and the handler up to
\* board.save() or Invite.findOne.
InviteFindUser(r) ==
  /\ Handles(r, "inviteUser", "findUser")
  /\ LET email == toLowerCase(args[r].body.email.val)
         HasMail(u) == u.email = email
         invitedUser == find(UserDocs, HasMail)
         IsInvited(m) == IdToString(m.user) = IdToString(invitedUser._id)
         joined == pushMember(local[r].board, invitedUser._id,
                              roleOrMember(args[r].body.role))
     IN  IF invitedUser = Undefined THEN Await(r, "findInvite", local[r])
         ELSE IF find(local[r].board.members, IsInvited) # Undefined
           THEN Respond(r, Response(400, Message("User is already a member of this board")))
                /\ UNCHANGED local
         ELSE AwaitSaveBoard(r, joined,
                Response(200, [message |-> "User added to board successfully",
                               board |-> joined]))
  /\ UNCHANGED <<clock, op, args, store, service>>

\* const existingInvite = await Invite.findOne({ email, board, status }) and
\* the handler up to Invite.create: the token is drawn and the expiry set.
InviteFindInvite(r) ==
  /\ Handles(r, "inviteUser", "findInvite")
  /\ LET email == toLowerCase(args[r].body.email.val)
         IsPending(i) ==
           i.email = email /\ i.board = local[r].board._id /\ i.status = "pending"
         existingInvite == find(store.invites, IsPending)
     IN  IF existingInvite # Undefined
         THEN Respond(r, Response(400,
                [message |-> "An invitation has already been sent to this email",
                 invite |-> inviteShown(existingInvite)]))
              /\ UNCHANGED local
         ELSE \E token \in Tokens :
                Await(r, "createInvite",
                      [local[r] EXCEPT !.invite =
                         InviteDoc(local[r].board._id, trim(email), args[r].user._id,
                                   token, roleOrMember(args[r].body.role), "pending",
                                   MakeDate(clock.day + 7, clock.ms))])
  /\ UNCHANGED <<clock, op, args, store, service>>

\* const invite = await Invite.create({ ... })
InviteCreate(r) ==
  /\ Handles(r, "inviteUser", "createInvite")
  /\ LET invite == local[r].invite
         HasToken(i) == i.token = invite.token
     IN  IF invite.role \notin roleEnum \/ some(store.invites, HasToken)
         THEN Respond(r, serverError) /\ UNCHANGED store
         ELSE /\ store' = [store EXCEPT !.invites = Append(store.invites, invite)]
              /\ Respond(r, Response(201,
                   [message |-> "Invitation created successfully. User will be added when they register.",
                    invite |-> inviteShown(invite)]))
  /\ UNCHANGED <<clock, op, args, service, local>>

\* const invite = await Invite.findOne({ token, status: 'pending' })
\*   .populate('board')
AcceptFindInvite(r) ==
  /\ Handles(r, "acceptInvite", "call")
  /\ LET IsPending(i) == i.token = args[r].token /\ i.status = "pending"
         invite == find(store.invites, IsPending)
     IN  Await(r, "invite",
               [local[r] EXCEPT !.invite = invite,
                  !.board = IF invite = Undefined THEN Null
                            ELSE findById(store.boards, invite.board).value])
  /\ UNCHANGED <<clock, op, args, ret, store, service>>

\* acceptInvite from the invite found up to invite.save() or Board.findById;
\* new Date() is read here.
AcceptCheckInvite(r) ==
  /\ Handles(r, "acceptInvite", "invite")
  /\ \E now \in LaterClocks(clock) :
       LET invite == local[r].invite
       IN  /\ clock' = now
           /\ IF invite = Undefined
                THEN Respond(r, Response(404, Message("Invite not found or already used")))
                     /\ UNCHANGED local
              ELSE IF dateBefore(invite.expiresAt, now)
                THEN Await(r, "saveInvite",
                           [local[r] EXCEPT !.invite.status = "expired", !.now = now,
                              !.response = Response(400, Message("Invite has expired"))])
              ELSE IF toLowerCase(args[r].user.email) # toLowerCase(invite.email)
                THEN Respond(r, Response(403,
                       Message("This invite was sent to a different email address")))
                     /\ UNCHANGED local
              ELSE IF local[r].board = Null
                THEN Respond(r, serverError) /\ UNCHANGED local
              ELSE Await(r, "findBoard", [local[r] EXCEPT !.now = now])
  /\ UNCHANGED <<op, args, store, service>>

\* const board = await Board.findById(invite.board._id) and the handler up
\* to invite.save() or board.save().
AcceptFindBoard(r) ==
  /\ Handles(r, "acceptInvite", "findBoard")
  /\ LET board == findById(store.boards, local[r].invite.board).value
         IsRequester(m) == IdToString(m.user) = IdToString(args[r].user._id)
         joined == pushMember(board, args[r].user._id, local[r].invite.role)
     IN  IF board = Null
           THEN Respond(r, Response(404, Message("Board not found"))) /\ UNCHANGED local
         ELSE IF find(board.members, IsRequester) # Undefined
           THEN Await(r, "saveInvite",
                      [local[r] EXCEPT !.invite.status = "accepted",
                         !.response = Response(400,
                            Message("You are already a member of this board"))])
         ELSE AwaitSaveBoard(r, joined,
                Response(200, [message |-> "Successfully joined the board",
                               board |-> joined]))
  /\ UNCHANGED <<clock, op, args, store, service>>

\* await invite.save() of acceptInvite, and the response.
AcceptSaveInvite(r) ==
  /\ Handles(r, "acceptInvite", "saveInvite")
  /\ store' = [store EXCEPT !.invites = saveStatus(store.invites, local[r].invite)]
  /\ Respond(r, local[r].response)
  /\ UNCHANGED <<clock, op, args, service, local>>

\* The requests: addMember and inviteUser for board 1 by its owner, its
\* admin 3 and its plain member 2, acceptInvite by the users 1, 2 and 5.
MemberRequests ==
  [handler : {"addMember"}, id : {1}, user : {UserDocs[1], UserDocs[2]},
   body : [userId : {2, 5}, role : {Undefined, Str("guest")}]]
  \cup
  [handler : {"inviteUser"}, id : {1}, user : {UserDocs[2], UserDocs[3]},
   body : [email : {Undefined, Str("Eve@X.io"), Str("new@x.io"), Str("cat@x.io")},
           role : {Undefined}]]
  \cup
  [handler : {"acceptInvite"}, token : {"c3d4", "e7f8", "0000"},
   user : {UserDocs[1], UserDocs[2], UserDocs[5]}]

InitMembers ==
  /\ ClockInit
  /\ op = "boardRequests"
  /\ pc = [r \in Requests |-> "call"]
  /\ ret = [r \in Requests |-> Null]
  /\ local = [r \in Requests |-> NoBoardFrame]
  /\ store = SeedInvites
  /\ service = NoService
  /\ args \in [Requests -> MemberRequests]

NextMembers ==
  \E r \in Requests :
    \/ AddMemberFindBoard(r)
    \/ InviteFindBoard(r)
    \/ InviteFindUser(r)
    \/ InviteFindInvite(r)
    \/ InviteCreate(r)
    \/ AcceptFindInvite(r)
    \/ AcceptCheckInvite(r)
    \/ AcceptFindBoard(r)
    \/ SaveBoard(r)
    \/ AcceptSaveInvite(r)

SpecMembers == InitMembers /\ [][NextMembers]_vars

\* The handler of r takes the step from the await at to the await next.
Steps(r, at, next) == pc[r] = at /\ pc'[r] = next

\* The members of the board with the id given, in the store st.
MembersOf(st, id) == findById(st.boards, id).value.members

\* The invite with the token of request r as the store holds it.
StoredInvite(r) ==
  LET HasToken(i) == i.token = args[r].token
  IN  find(store.invites, HasToken)

\* C21: an invite is created pending; its status changes only in
\* acceptInvite, from pending to accepted or from pending to expired, and
\* not again; acceptInvite adds the requester to the members of the board
\* only when the invite is pending, not past expiresAt, addressed to the
\* email of the requester and the requester is no member yet, and leaves
\* the members alone otherwise.
C21_InviteLifecycle ==
  [][ /\ \A i \in DOMAIN store'.invites :
           IF i \in DOMAIN store.invites
           THEN store'.invites[i].status # store.invites[i].status =>
                  /\ store.invites[i].status = "pending"
                  /\ store'.invites[i].status \in {"accepted", "expired"}
                  /\ \E r \in Requests :
                       args[r].handler = "acceptInvite" /\ Steps(r, "saveInvite", "done")
           ELSE store'.invites[i].status = "pending"
      /\ \A r \in Requests :
           (args[r].handler = "acceptInvite" /\ pc'[r] # pc[r]
              /\ store'.boards # store.boards) =>
             /\ StoredInvite(r) # Undefined
             /\ StoredInvite(r).status = "pending"
             /\ ~dateBefore(StoredInvite(r).expiresAt, local[r].now)
             /\ toLowerCase(StoredInvite(r).email) = toLowerCase(args[r].user.email)
             /\ \A k \in DOMAIN MembersOf(store, StoredInvite(r).board) :
                  MembersOf(store, StoredInvite(r).board)[k].user # args[r].user._id
             /\ MembersOf(store', StoredInvite(r).board) =
                  Append(MembersOf(store, StoredInvite(r).board),
                         Member(args[r].user._id, StoredInvite(r).role))
    ]_vars

\* C22: a user is at most once among the members of a board, also with
\* addMember, inviteUser and acceptInvite for the same user and board under
\* way at once.
C22_MemberAtMostOnce ==
  \A b \in DOMAIN store.boards :
    \A i, k \in DOMAIN store.boards[b].members :
      store.boards[b].members[i].user = store.boards[b].members[k].user => i = k

(***************************************************************************)
(* The handlers of the card and list controllers that write cards and      *)
(* lists: createCard, updateCard, moveCard, reorderCards, createList and   *)
(* updateList.  Requests follow one another, up to MaxCardCalls of them;   *)
(* local.before is the store before the last request, op, args and ret are *)
(* the last request and its response.  A field the body of a request does  *)
(* not give is undefined.                                                  *)
(***************************************************************************)
MaxCardCalls == 2

\* A list document with its position.
WithPosition(list, position) ==
  [f \in DOMAIN list \cup {"position"} |->
     IF f = "position" THEN position ELSE list[f]]

SeedCards ==
  [boards |-> SeedStore.boards,
   lists  |-> << WithPosition(SeedStore.lists[1], 0), WithPosition(SeedStore.lists[2], 1),
                 WithPosition(SeedStore.lists[3], 0) >>,
   cards  |-> SeedStore.cards]

\* body.field, undefined when the body does not give it.
Field(body, field) == IF field \in DOMAIN body THEN body[field] ELSE Undefined

\* The _id of a document made in the collection: one no document has.
newId(collection) ==
  1 + (CHOOSE n \in {0} \cup {collection[i]._id : i \in DOMAIN collection} :
         \A i \in DOMAIN collection : collection[i]._id <= n)

\* Model.findOne({ field: value }).sort({ position: -1 }), and the position
\* after it.
positionAtEnd(collection, field, value) ==
  LET found == findBy(collection, field, value)
  IN  IF found = <<>> THEN 0
      ELSE 1 + (CHOOSE p \in {found[i].position : i \in DOMAIN found} :
                  \A i \in DOMAIN found : found[i].position <= p)

\* The list found is one of the board: listDoc && listDoc.board.toString()
\* === board,
listOfAnyBoard(listDoc, board) == listDoc # Null

listOfBoard(listDoc, board) ==
  listDoc # Null /\ IdToString(listDoc.board) = IdToString(board)

\* The answer to a requester without access to the board.
noAccess(access, notFound) ==
  Response(IF access.value.error = "Board not found" THEN notFound ELSE 403,
           Message(access.value.error))

\* createCard from the list found on.
createInList(st, body, found) ==
  LET position == IF "position" \notin DOMAIN body
                  THEN positionAtEnd(st.cards, "list", body.list)
                  ELSE body.position
      card == CardDoc(newId(st.cards),
                      [title |-> Str(trim(body.title.val)), description |-> Str("")],
                      body.list, body.board, position)
  IN  IF found.kind = "throw" THEN Outcome(st, serverError)
      ELSE IF ~listOfBoard(found.value, body.board)
        THEN Outcome(st, Response(400, Message("Invalid list for this board")))
      ELSE IF card.title.val = "" THEN Outcome(st, serverError)
      ELSE Outcome([st EXCEPT !.cards = Append(st.cards, card)], Response(201, card))

createCard(st, body, user) ==
  LET access == checkBoardAccess(st.boards, body.board, user)
  IN  IF \/ IsFalsyValue(Field(body, "title"))
         \/ "list" \notin DOMAIN body \/ "board" \notin DOMAIN body
        THEN Outcome(st, Response(400, Message("Please provide title, list, and board")))
      ELSE IF access.kind = "throw" THEN Outcome(st, serverError)
      ELSE IF ~access.value.hasAccess THEN Outcome(st, noAccess(access, 404))
      ELSE createInList(st, body, findById(st.lists, body.list))

\* A handler that loads a card by id and checks the access to its board:
\* the card, or the response that ends the handler.
loadCard(st, id, user) ==
  LET found == findById(st.cards, id)
      access == IF found.kind = "throw" \/ found.value = Null THEN found
                ELSE checkBoardAccess(st.boards, found.value.board, user)
  IN  IF found.kind = "throw" THEN Throw(serverError)
      ELSE IF found.value = Null THEN Throw(Response(404, Message("Card not found")))
      ELSE IF access.kind = "throw" THEN Throw(serverError)
      ELSE IF ~access.value.hasAccess THEN Throw(noAccess(access, 403))
      ELSE Return(found.value)

\* card.save(): the title is required and trimmed.
saveCard(st, card) ==
  LET saved == [card EXCEPT !.title = IF card.title.type = "string"
                                      THEN Str(trim(card.title.val)) ELSE card.title]
  IN  IF saved.title.type # "string" \/ saved.title.val = ""
      THEN Outcome(st, serverError)
      ELSE Outcome([st EXCEPT !.cards = save(st.cards, saved)], Response(200, saved))

updateCard(st, id, body, user) ==
  LET loaded == loadCard(st, id, user)
      card == loaded.value
      titled == IF Field(body, "title") # Undefined
                THEN [card EXCEPT !.title = body.title] ELSE card
      described == IF Field(body, "description") # Undefined
                   THEN [titled EXCEPT !.description = body.description] ELSE titled
  IN  IF loaded.kind = "throw" THEN Outcome(st, loaded.value)
      ELSE saveCard(st, described)

\* moveCard from the list found on.
moveToList(st, card, body, found) ==
  IF found.kind = "throw" THEN Outcome(st, serverError)
  ELSE IF ~listOfBoard(found.value, card.board)
    THEN Outcome(st, Response(400, Message("Invalid list for this board")))
  ELSE saveCard(st, [card EXCEPT !.list = body.listId, !.position = body.position])

moveCard(st, id, body, user) ==
  LET loaded == loadCard(st, id, user)
  IN  IF loaded.kind = "throw" THEN Outcome(st, loaded.value)
      ELSE IF "listId" \notin DOMAIN body \/ "position" \notin DOMAIN body
        THEN Outcome(st, Response(400, Message("Please provide listId and position")))
      ELSE moveToList(st, loaded.value, body, findById(st.lists, body.listId))

createList(st, body, user) ==
  LET access == checkBoardAccess(st.boards, body.board, user)
      position == IF "position" \notin DOMAIN body
                  THEN positionAtEnd(st.lists, "board", body.board)
                  ELSE body.position
      list == WithPosition(ListDoc(newId(st.lists), trim(body.title.val), body.board),
                           position)
  IN  IF IsFalsyValue(Field(body, "title")) \/ "board" \notin DOMAIN body
        THEN Outcome(st, Response(400, Message("Please provide title and board")))
      ELSE IF access.kind = "throw" THEN Outcome(st, serverError)
      ELSE IF ~access.value.hasAccess THEN Outcome(st, noAccess(access, 404))
      ELSE IF list.title = "" THEN Outcome(st, serverError)
      ELSE Outcome([st EXCEPT !.lists = Append(st.lists, list)], Response(201, list))

\* updateList from the list found on.
updateFoundList(st, list, body) ==
  LET titled == IF Field(body, "title") # Undefined
                THEN [list EXCEPT !.title = trim(body.title.val)] ELSE list
      updated == IF "position" \in DOMAIN body
                 THEN [titled EXCEPT !.position = body.position] ELSE titled
  IN  IF updated.title = "" THEN Outcome(st, serverError)
      ELSE Outcome([st EXCEPT !.lists = save(st.lists, updated)], Response(200, updated))

updateList(st, id, body, user) ==
  LET found == findById(st.lists, id)
      access == IF found.kind = "throw" \/ found.value = Null THEN found
                ELSE checkBoardAccess(st.boards, found.value.board, user)
  IN  IF found.kind = "throw" THEN Outcome(st, serverError)
      ELSE IF found.value = Null THEN Outcome(st, Response(404, Message("List not found")))
      ELSE IF access.kind = "throw" THEN Outcome(st, serverError)
      ELSE IF ~access.value.hasAccess THEN Outcome(st, noAccess(access, 403))
      ELSE updateFoundList(st, found.value, body)

\* The requests: the users 1 (owner of board 1) and 4 (owner of board 2);
\* ids that are no ObjectId (0), that exist, and that do not or not yet (4, 9).
CardUsers == {1, 4}

CardIds == {0, 1, 3, 4}

CardTitles == {Str("Ship it"), Str("")}

CreateCardBodies ==
  [title : CardTitles, list : {1, 3, 9}, board : {1, 2}]
    \cup [title : {Str("Ship it")}, list : {1, 3}, board : {1, 2}, position : {0}]
    \cup [title : {Str("Ship it")}, board : {1}]

UpdateCardBodies ==
  [title : CardTitles] \cup [description : {Str("today")}]
    \cup [title : {Str("Ship it")}, description : {Str("today")}]

MoveCardBodies ==
  [listId : {1, 2, 3, 4}, position : {0, 2}] \cup [listId : {1, 3}]

ReorderInCardsBodies ==
  [listId : {1, 3},
   cardOrders : {Arr(<<[cardId |-> c, position |-> 5]>>) : c \in {1, 3}}]

CreateListBodies ==
  [title : {Str("Done")}, board : {0, 1, 2, 9}]
    \cup [title : {Str(" ")}, board : {1}, position : {0}] \cup [board : {1}]

UpdateListBodies == [title : {Str("Doing"), Str("")}] \cup [position : {4}]

\* A request handled: its response, the store it leaves and the store
\* before it.
CardHandled(name, request, outcome) ==
  /\ pc = "call" /\ op \in {"cardController", "createCard", "updateCard", "moveCard",
                            "reorderCards", "createList", "updateList"}
  /\ local.calls < MaxCardCalls
  /\ op' = name
  /\ args' = request
  /\ ret' = outcome.response
  /\ store' = outcome.store
  /\ local' = [before |-> store, calls |-> local.calls + 1]
  /\ UNCHANGED <<clock, pc, service>>

CreateCard ==
  \E user \in CardUsers, body \in CreateCardBodies :
    CardHandled("createCard", [user |-> user, body |-> body],
                createCard(store, body, user))

UpdateCard ==
  \E id \in CardIds, user \in CardUsers, body \in UpdateCardBodies :
    CardHandled("updateCard", [id |-> id, user |-> user, body |-> body],
                updateCard(store, id, body, user))

MoveCard ==
  \E id \in CardIds, user \in CardUsers, body \in MoveCardBodies :
    CardHandled("moveCard", [id |-> id, user |-> user, body |-> body],
                moveCard(store, id, body, user))

ReorderCardsInSequence ==
  \E user \in CardUsers, body \in ReorderInCardsBodies :
    \E order \in CompletionOrders(Len(body.cardOrders.elements)) :
      LET outcome == reorderCards(store, body, user, order)
      IN  \E response \in outcome.responses :
            CardHandled("reorderCards", [user |-> user, body |-> body],
                        Outcome([store EXCEPT !.cards = outcome.cards], response))

CreateList ==
  \E user \in CardUsers, body \in CreateListBodies :
    CardHandled("createList", [user |-> user, body |-> body],
                createList(store, body, user))

UpdateList ==
  \E id \in CardIds, user \in CardUsers, body \in UpdateListBodies :
    CardHandled("updateList", [id |-> id, user |-> user, body |-> body],
                updateList(store, id, body, user))

InitCards ==
  /\ ClockInit
  /\ pc = "call" /\ op = "cardController" /\ args = <<>> /\ ret = Null
  /\ store = SeedCards /\ service = NoService
  /\ local = [before |-> SeedCards, calls |-> 0]

NextCards ==
  CreateCard \/ UpdateCard \/ MoveCard \/ ReorderCardsInSequence \/ CreateList \/ UpdateList

SpecCards == InitCards /\ [][NextCards]_vars

\* The document of the collection with the id given, in the store before
\* the last request; Null when there is none.
Before(collection, id) == findById(local.before[collection], id).value

\* The requester has access to the board with the id given.
HasAccess(boardId, user) ==
  \E b \in DOMAIN store.boards :
    /\ store.boards[b]._id = boardId
    /\ OwnerOrMember(store.boards[b], user)

\* The last request asked createCard or moveCard for an existing list of
\* another board than the card's, with a body and a requester that pass the
\* checks before.
ListOfOtherBoard ==
  \/ /\ op = "createCard"
     /\ {"title", "list", "board"} \subseteq DOMAIN args.body
     /\ ~IsFalsyValue(args.body.title)
     /\ HasAccess(args.body.board, args.user)
     /\ Before("lists", args.body.list) # Null
     /\ Before("lists", args.body.list).board # args.body.board
  \/ /\ op = "moveCard" /\ args.id # 0
     /\ Before("cards", args.id) # Null
     /\ HasAccess(Before("cards", args.id).board, args.user)
     /\ {"listId", "position"} \subseteq DOMAIN args.body
     /\ Before("lists", args.body.listId) # Null
     /\ Before("lists", args.body.listId).board # Before("cards", args.id).board

\* C23: after any sequence of createCard, updateCard, moveCard,
\* reorderCards, createList and updateList, every card whose list exists
\* is in a list of its own board; createCard and moveCard answer 400 to a
\* list of another board; no operation changes the board of a card or of a
\* list.
C23_CardInListOfItsBoard ==
  /\ \A c \in DOMAIN store.cards : \A l \in DOMAIN store.lists :
       store.lists[l]._id = store.cards[c].list =>
         store.lists[l].board = store.cards[c].board
  /\ ListOfOtherBoard => (ret.status = 400 /\ store = local.before)
  /\ \A c \in DOMAIN local.before.cards :
       /\ store.cards[c]._id = local.before.cards[c]._id
       /\ store.cards[c].board = local.before.cards[c].board
  /\ \A l \in DOMAIN local.before.lists :
       /\ store.lists[l]._id = local.before.lists[l]._id
       /\ store.lists[l].board = local.before.lists[l].board

\* A card made by the request before is refused a list of another board.
C23_Witness ==
  /\ local.calls = 2 /\ op = "moveCard" /\ ListOfOtherBoard
  /\ args.id = 4 /\ Len(local.before.cards) = 4
  /\ ret.status = 400

(***************************************************************************)
(* suggestListMovement: when nothing is returned.                          *)
(***************************************************************************)
\* C24: suggestListMovement returns nothing only when no category is
\* triggered or every board list matching a triggered category is the
\* card's current list: whenever a triggered category has a board list
\* whose title contains one of its fragments and whose id differs from the
\* card's current list, a suggestion is returned, also when an earlier list
\* of the board matches the same category and is the current list.
C24_NothingOnlyWithoutOtherList ==
  CalledSuggest =>
    (ret = Null <=>
       WithOtherList(TriggeredCategories(CardText(args.card)),
                     args.card, args.allLists) = {})

\* What the code honours: nothing is returned exactly when no triggered
\* category has a first matching list other than the card's current list.
C24_NothingWithoutOtherFirstList ==
  CalledSuggest =>
    (ret = Null <=>
       WithOtherFirstList(TriggeredCategories(CardText(args.card)),
                          args.card, args.allLists) = {})

(***************************************************************************)
(* The reasons of the due-date suggestions of analyzeCard, for cards whose *)
(* title and description hold the date phrases.                            *)
(***************************************************************************)
ReasonTexts ==
  {Str("Ship today, demo tomorrow"), Str("Retro EOW"), Str("due Tomorrow"),
   Str("Plan next week"), Str("End of week"), Str("next month"),
   Str("in 3 days"), Str("in 2 weeks or in 1 day"), Str("Fix login bug"), Str("")}

ReasonCards ==
  [_id : {1}, title : ReasonTexts, description : ReasonTexts,
   list : {1}, dueDate : {Null}]

ReasonBoards == {CardsOf(<<>>), CardsOf(<<[title |-> Str("Fix login page"),
                                           description |-> Str("")]>>)}

InitReasons ==
  /\ ClockInit
  /\ ToCall("analyzeCard",
            [card : ReasonCards, boardCards : ReasonBoards,
             boardLists : {ListsOf(<<"Backlog", "Testing">>)}])

SpecReasons == InitReasons /\ [][Next]_vars

\* The reason that names the phrase of date rule r in the lowercased text.
ReasonOfRule(r, lower) ==
  CASE r = 1 -> "Mentioned \"today\""
    [] r = 2 -> "Mentioned \"tomorrow\""
    [] r = 3 -> "Mentioned \"next week\""
    [] r = 4 -> "Mentioned \"this week\""
    [] r = 5 -> "Mentioned \"next month\""
    [] r = 6 -> "Mentioned \"in " \o RegexMatch(lower, "day").val \o " days\""
    [] r = 7 -> "Mentioned \"in " \o RegexMatch(lower, "week").val \o " weeks\""
    [] OTHER -> "Based on card content"

\* The text of the card that suggestion s was made from.
SourceText(s) == IF s.source = "title" THEN args.card.title ELSE args.card.description

\* The reason of suggestion s is the one of the rule parseDateKeywords
\* applied to its text.
ReasonOfAppliedRule(s) ==
  s.reason = ReasonOfRule(RuleOf(SourceText(s)), toLowerCase(SourceText(s).val))

\* C25: in every date suggestion of analyzeCard the reason names the
\* phrase of the rule that produced the date, also for a text with both
\* "today" and "tomorrow" and for a text matched through "eow" only; the
\* reason "Based on card content" never goes with a suggested date.
C25_ReasonNamesAppliedRule ==
  CalledAnalyze =>
    \A i \in DOMAIN ret.suggestedDueDates :
      /\ ReasonOfAppliedRule(ret.suggestedDueDates[i])
      /\ ret.suggestedDueDates[i].reason # "Based on card content"

\* The first of the rules after the fourth that matches, 0 when none does.
FirstRuleAfterWeek(lower) ==
  IF \E r \in 5..7 : DateRuleMatches(r, lower)
  THEN CHOOSE r \in 5..7 :
         DateRuleMatches(r, lower) /\ \A q \in 5..(r - 1) : ~DateRuleMatches(q, lower)
  ELSE 0

\* What the code honours: the reason is the one of the applied rule unless
\* the text holds "today" together with "tomorrow", or is matched by the
\* fourth rule through "eow" alone, where it is the reason of a later rule
\* or "Based on card content".
C25_ReasonOutsideTheTwoCases ==
  CalledAnalyze =>
    \A i \in DOMAIN ret.suggestedDueDates :
      LET s == ret.suggestedDueDates[i]
          lower == toLowerCase(SourceText(s).val)
      IN  IF includes(lower, "today") /\ includes(lower, "tomorrow")
            THEN s.reason = "Mentioned \"tomorrow\""
          ELSE IF /\ RuleOf(SourceText(s)) = 4
                  /\ ~includes(lower, "this week") /\ ~includes(lower, "end of week")
            THEN s.reason = ReasonOfRule(FirstRuleAfterWeek(lower), lower)
          ELSE ReasonOfAppliedRule(s)
====
